---- MODULE Spec2Model ----
(***************************************************************************)
(* Verification model of the wisp-engine asset tools:                      *)
(*   tools/wisp_builder.py        bundle writer (collect_assets,           *)
(*                                write_wisp_bundle, depth RLE)            *)
(*   tools/wisp_rom_builder.py    WispROMBuilder (add_asset, build_rom)    *)
(*   tools/wisp_verifier.py       verify_wisp_file, extract_asset          *)
(*   tools/wisp_palette_converter.py  palette tables                       *)
(*   tools/png_to_spr_standalone.py   load_wlut, colour matching, depth    *)
(*                                run-length encoder, sprite records       *)
(*   tools/wisp_rom_builder_v2.py WispROMBuilderV2 (keyed database)        *)
(* Bytes are integers 0..255, byte strings are sequences of bytes, Python  *)
(* str values are sequences of Unicode code points.                        *)
(***************************************************************************)
EXTENDS Integers, Sequences, FiniteSets, TLC

VARIABLES
    tool,         \* which program runs: "bundle", "rom", "palette", "sprite"
    pc,           \* position of that program
    config_data,  \* collect_assets: config bytes (None and b'' are both <<>>);
                  \* WispROMBuilder: self.config_data, a str
    config_set,   \* history: a set_config call has succeeded
    walked,       \* rel_paths os.walk has already yielded
    entries,      \* entry table records, in insertion order
    payloads,     \* payload byte strings, in insertion order
    offset,       \* running offset (offset / current_offset)
    assets,       \* WispROMBuilder.self.assets
    file,         \* bytes of the container file on disk
    result,       \* outcome of the last reader call
    pal,          \* palette converter: format, image and produced table
    spr,          \* sprite compiler: depth data and the run-length encoder
    wlut,         \* png_to_spr_standalone: WLUT_DATA and the calls made so far
    keyed         \* WispROMBuilderV2: the builder object and what it produced

vars == <<tool, pc, config_data, config_set, walked, entries, payloads,
          offset, assets, file, result, pal, spr, wlut, keyed>>

containerVars == <<config_data, config_set, walked, entries, payloads,
                   offset, assets, file, result>>

(***************************************************************************)
(* Python primitives                                                       *)
(***************************************************************************)
Min(a, b) == IF a < b THEN a ELSE b

Rep(n, c) == [i \in 1..n |-> c]

\* data[a:b] for 0 <= a, 0 <= b: out-of-range bounds are clamped
PySlice(s, a, b) ==
    LET lo == Min(a, Len(s))
        hi == Min(b, Len(s))
    IN  IF lo < hi THEN SubSeq(s, lo + 1, hi) ELSE <<>>

RECURSIVE Pow256(_)
Pow256(k) == IF k = 0 THEN 1 ELSE 256 * Pow256(k - 1)

\* struct.pack('<H' / '<I', n): little-endian, w bytes
PackLE(n, w) == [i \in 1..w |-> (n \div Pow256(i - 1)) % 256]

RECURSIVE UnpackLE(_)
\* struct.unpack('<H' / '<I', b)[0] once the length was checked
UnpackLE(b) == IF b = <<>> THEN 0 ELSE b[1] + 256 * UnpackLE(Tail(b))

RECURSIVE RStripNul(_)
\* bytes.rstrip(b'\x00')
RStripNul(b) ==
    IF b # <<>> /\ b[Len(b)] = 0 THEN RStripNul(SubSeq(b, 1, Len(b) - 1)) ELSE b

\* bytes.ljust(32, b'\x00')
LJust32(b) == IF Len(b) >= 32 THEN b ELSE b \o Rep(32 - Len(b), 0)

RECURSIVE SumLen(_)
SumLen(ps) == IF ps = <<>> THEN 0 ELSE Len(ps[1]) + SumLen(Tail(ps))

RECURSIVE Concat(_)
Concat(ps) == IF ps = <<>> THEN <<>> ELSE ps[1] \o Concat(Tail(ps))

(***************************************************************************)
(* UTF-8: str.encode('utf-8') and bytes.decode('utf-8')                    *)
(***************************************************************************)
Utf8EncodeCp(c) ==
    IF c < 128 THEN <<c>>
    ELSE IF c < 2048 THEN <<192 + (c \div 64), 128 + (c % 64)>>
    ELSE IF c < 65536
         THEN <<224 + (c \div 4096), 128 + ((c \div 64) % 64), 128 + (c % 64)>>
    ELSE <<240 + (c \div 262144), 128 + ((c \div 4096) % 64),
           128 + ((c \div 64) % 64), 128 + (c % 64)>>

RECURSIVE Utf8Encode(_)
Utf8Encode(s) == IF s = <<>> THEN <<>> ELSE Utf8EncodeCp(s[1]) \o Utf8Encode(Tail(s))

IsCont(x) == x >= 128 /\ x <= 191

\* number of continuation bytes a lead byte announces; -1 for an invalid lead
Utf8Need(b0) ==
    IF b0 < 128 THEN 0
    ELSE IF b0 >= 194 /\ b0 <= 223 THEN 1
    ELSE IF b0 >= 224 /\ b0 <= 239 THEN 2
    ELSE IF b0 >= 240 /\ b0 <= 244 THEN 3
    ELSE -1

\* the range allowed for the first continuation byte after lead b0
Utf8Second(b0, x) ==
    IF b0 = 224 THEN x >= 160 /\ x <= 191
    ELSE IF b0 = 237 THEN x >= 128 /\ x <= 159
    ELSE IF b0 = 240 THEN x >= 144 /\ x <= 191
    ELSE IF b0 = 244 THEN x >= 128 /\ x <= 143
    ELSE IsCont(x)

\* how many of the bytes after the lead at position i are acceptable continuations
Utf8Good(b, i) ==
    LET need == Utf8Need(b[i])
        okAt(k) == /\ i + k <= Len(b)
                   /\ IF k = 1 THEN Utf8Second(b[i], b[i + 1]) ELSE IsCont(b[i + k])
    IN  IF need >= 1 /\ okAt(1)
        THEN IF need >= 2 /\ okAt(2)
             THEN IF need >= 3 /\ okAt(3) THEN 3 ELSE 2
             ELSE 1
        ELSE 0

Utf8Value(b, i, need) ==
    IF need = 0 THEN b[i]
    ELSE IF need = 1 THEN (b[i] - 192) * 64 + (b[i + 1] - 128)
    ELSE IF need = 2
         THEN (b[i] - 224) * 4096 + (b[i + 1] - 128) * 64 + (b[i + 2] - 128)
    ELSE (b[i] - 240) * 262144 + (b[i + 1] - 128) * 4096
         + (b[i + 2] - 128) * 64 + (b[i + 3] - 128)

RECURSIVE Utf8Scan(_, _, _, _)
\* decoder loop; ignore = TRUE is errors='ignore', FALSE is the strict default
Utf8Scan(b, i, acc, ignore) ==
    IF i > Len(b) THEN [ok |-> TRUE, str |-> acc]
    ELSE LET need == Utf8Need(b[i])
             good == Utf8Good(b, i)
         IN  IF need >= 0 /\ good = need
             THEN Utf8Scan(b, i + need + 1, Append(acc, Utf8Value(b, i, need)), ignore)
             ELSE IF ignore THEN Utf8Scan(b, i + good + 1, acc, ignore)
             ELSE [ok |-> FALSE, str |-> <<>>]

Utf8Decode(b) == Utf8Scan(b, 1, <<>>, FALSE)

Utf8DecodeIgnore(b) == Utf8Scan(b, 1, <<>>, TRUE).str

(***************************************************************************)
(* struct.pack, and the depth run-length loop both sprite compilers share  *)
(***************************************************************************)
\* struct.pack raises struct.error for a value outside its field
FitsB(n) == n >= 0 /\ n <= 255

FitsH(n) == n >= 0 /\ n <= 65535

\* 0 <= n < 2^32
FitsL(n) == n >= 0 /\ (n \div 65536) <= 65535

\* struct.pack(format, *values): struct.error when the number of values is
\* not the number of items of the format, or a value does not fit its item
StructPack(widths, values) ==
    LET raised == \/ Len(widths) # Len(values)
                  \/ \E k \in 1..Len(values) :
                        CASE widths[k] = 1 -> ~FitsB(values[k])
                          [] widths[k] = 2 -> ~FitsH(values[k])
                          [] OTHER -> ~FitsL(values[k])
    IN  [raised |-> raised,
         bytes |-> IF raised THEN <<>>
                   ELSE Concat([k \in 1..Len(values) |-> PackLE(values[k], widths[k])])]

SameDepthNever(d, current_depth) == FALSE

\* "depth_data[i] == current_depth"
SameDepth(d, current_depth) == d = current_depth

RleContinuesNoCap(d, current_depth, run_length) == d = current_depth

\* "if depth_data[i] == current_depth and run_length < 65535"
RleContinues(d, current_depth, run_length) ==
    SameDepth(d, current_depth) /\ run_length < 65535

RECURSIVE RleLoop(_, _, _, _, _)
\* the encoder loop (png_to_spr_standalone.py lines 208-217, wisp_builder.py
\* lines 244-254) on a whole depth_data
RleLoop(depth_data, i, current_depth, run_length, depth_runs) ==
    IF i >= Len(depth_data)
    THEN Append(depth_runs, <<current_depth, run_length>>)
    ELSE IF RleContinues(depth_data[i + 1], current_depth, run_length)
    THEN RleLoop(depth_data, i + 1, current_depth, run_length + 1, depth_runs)
    ELSE RleLoop(depth_data, i + 1, depth_data[i + 1], 1,
                 Append(depth_runs, <<current_depth, run_length>>))

(***************************************************************************)
(* Inputs of the container tools                                           *)
(***************************************************************************)
MaxFiles == 2        \* files walked / assets added per build

DotArt == <<46, 97, 114, 116>>          \* ".art"

\* rel_paths: "a.art", "b.art", two 36-character names that share their first
\* 31 characters, a name whose 31st byte is the lead byte of a two-byte
\* character, and a file whose extension is not an asset extension
NameA == <<97>> \o DotArt
NameB == <<98>> \o DotArt
NameLong1 == Rep(31, 120) \o <<49>> \o DotArt
NameLong2 == Rep(31, 120) \o <<50>> \o DotArt
NameUtf == Rep(30, 120) \o <<233>> \o DotArt
NameTxt == <<99, 46, 116, 120, 116>>

AssetNames == {NameA, NameB, NameLong1, NameLong2, NameUtf}

Data1 == <<7>>
Data10 == [i \in 1..10 |-> i]
Data20 == [i \in 1..20 |-> 100 + i]

\* "p.png", the bytes of that file, and the RGBA image PIL decodes them to:
\* an opaque red pixel and a transparent one
NamePng == <<112, 46, 112, 110, 103>>

PngData == <<137, 80, 78, 71, 13, 10, 26, 10>>

PngImage ==
    [width |-> 2, height |-> 1,
     pixels |-> <<(<<255, 0, 0, 255>>), (<<0, 0, 0, 0>>)>>]

FileSet ==
    [name : AssetNames, ext : {".art"}, data : {Data10, Data20}]
    \cup [name : {NameTxt}, ext : {".txt"}, data : {Data1}]
    \cup [name : {NamePng}, ext : {".png"}, data : {PngData}]

\* content of config.yaml / config.yml; <<>> stands for "no file" and for an
\* empty file alike (collect_assets tests only "not config_data")
ConfigBlobs == {<<>>, <<120>>, <<110, 58, 32, 49>>, <<110, 58, 32, 49, 10>>}

\* text of the YAML file handed to set_config
ConfigTexts == {<<>>, <<120>>, <<110, 58, 32, 49>>, <<233>>}

\* names asked of extract_asset
RequestNames == AssetNames \cup {Rep(31, 120), <<>>, <<99>>}

(***************************************************************************)
(* tools/wisp_builder.py                                                   *)
(***************************************************************************)
MAGIC == <<87, 73, 83, 80>>             \* b'WISP'

ASSET_TYPE ==
    [e \in {".wlut", ".art", ".png", ".tilemap", ".sfx", ".wav", ".ogg", ".font",
            ".yaml", ".yml", ".ash", ".wash", ".level", ".depth"} |->
        CASE e = ".wlut" -> 1 [] e = ".art" -> 2 [] e = ".png" -> 2
          [] e = ".tilemap" -> 3 [] e = ".sfx" -> 4 [] e = ".wav" -> 4
          [] e = ".ogg" -> 4 [] e = ".font" -> 5 [] e = ".yaml" -> 6
          [] e = ".yml" -> 6 [] e = ".ash" -> 7 [] e = ".wash" -> 8
          [] e = ".level" -> 9 [] e = ".depth" -> 10]

\* struct.pack(HEADER_STRUCT = '<4sHHI', magic, version, entry_count, config_size)
PackHeader(magic, version, entry_count, config_size) ==
    magic \o PackLE(version, 2) \o PackLE(entry_count, 2) \o PackLE(config_size, 4)

PackEntryNoReserved(e) ==
    PySlice(LJust32(e.name), 0, 32) \o PackLE(e.offset, 4) \o PackLE(e.size, 4)
    \o <<e.type>> \o <<e.flags>>

\* struct.pack(ENTRY_STRUCT = '<32sIIBB6s', name, offset, size, type, flags, reserved)
PackEntry(e) ==
    PySlice(LJust32(e.name), 0, 32) \o PackLE(e.offset, 4) \o PackLE(e.size, 4)
    \o <<e.type>> \o <<e.flags>> \o e.reserved

\* the entry dict collect_assets builds for one file
MakeEntry(rel_path, off, data, ext) ==
    [name |-> LJust32(PySlice(Utf8Encode(rel_path), 0, 31)),
     offset |-> off,
     size |-> Len(data),
     type |-> ASSET_TYPE[ext],
     flags |-> 0,
     reserved |-> Rep(6, 0)]

NextOffsetStale(off, data) == off

\* offset += len(data)
NextOffset(off, data) == off + Len(data)

RECURSIVE PackEntries(_)
PackEntries(es) == IF es = <<>> THEN <<>> ELSE PackEntry(es[1]) \o PackEntries(Tail(es))

\* the bytes write_wisp_bundle writes to output_file
BundleBytes(es, ps, cfg) ==
    PackHeader(MAGIC, 256, Len(es), Len(cfg)) \o cfg \o PackEntries(es) \o Concat(ps)

NoResult ==
    [op |-> "none", ok |-> "none", name |-> <<>>, out |-> <<>>, wrote |-> FALSE,
     entry_count |-> 0, config_size |-> 0, listed |-> <<>>]

Outcome(op, ok) == [NoResult EXCEPT !.op = op, !.ok = ok]

\* collect_assets, lines 38-50: read the config file or raise FileNotFoundError
CollectConfig ==
    /\ tool = "bundle" /\ pc = "init"
    /\ \E cfg \in ConfigBlobs :
          /\ config_data' = cfg
          /\ IF cfg = <<>>
             THEN pc' = "raised" /\ result' = Outcome("collect_assets", "raise")
             ELSE pc' = "walk" /\ UNCHANGED result
    /\ UNCHANGED <<tool, config_set, walked, entries, payloads, offset, assets,
                   file, pal, spr>>
    /\ UNCHANGED <<wlut, keyed>>

\* lines 213-220: the colour index of one RGBA pixel; the three shifted
\* fields share no bit, so their bitwise OR is their sum
QuantIndex(px) ==
    IF px[4] < 128 THEN 0
    ELSE LET color_index == (px[1] \div 32) * 32 + (px[2] \div 32) * 4 + (px[3] \div 64)
         IN  Min(255, IF color_index < 1 THEN 1 ELSE color_index)

\* the items of the format '<HHHBBBHH', by width in bytes
SpriteHeaderFormat == <<2, 2, 2, 1, 1, 1, 2, 2>>

\* compile_png_to_sprite(png_path, root_folder) for an image without a
\* .depth file: the record, or None (ok = FALSE) when the "except Exception"
\* of line 288 caught an error, as the struct.error of the header
compile_png_to_sprite(img) ==
    LET color_data == [i \in 1..(img.width * img.height) |-> QuantIndex(img.pixels[i])]
        depth_data == [i \in 1..(img.width * img.height) |-> 6]
        depth_runs == RleLoop(depth_data, 1, depth_data[1], 1, <<>>)
        header == StructPack(SpriteHeaderFormat,
                             <<img.width, img.height, Len(color_data),
                               Len(depth_runs) * 3, 0, 0, 1, 1, img.width, img.height>>)
    IN  [ok |-> ~header.raised,
         data |-> IF header.raised THEN <<>>
                  ELSE header.bytes \o color_data
                       \o Concat([k \in 1..Len(depth_runs) |->
                                    <<depth_runs[k][1]>> \o PackLE(depth_runs[k][2], 2)])]

\* lines 66-75: the payload of a file; a .png is compiled, and its raw bytes
\* are read when the compilation gave None
AssetData(f) ==
    IF f.ext = ".png" /\ compile_png_to_sprite(PngImage).ok
    THEN compile_png_to_sprite(PngImage).data
    ELSE f.data

\* one iteration of the os.walk loop for a file with an asset extension
CollectStep ==
    /\ tool = "bundle" /\ pc = "walk" /\ Cardinality(walked) < MaxFiles
    /\ \E f \in FileSet :
          /\ f.name \notin walked
          /\ f.ext \in DOMAIN ASSET_TYPE
          /\ walked' = walked \cup {f.name}
          /\ entries' = Append(entries, MakeEntry(f.name, offset, AssetData(f), f.ext))
          /\ payloads' = Append(payloads, AssetData(f))
          /\ offset' = NextOffset(offset, AssetData(f))
    /\ UNCHANGED <<tool, pc, config_data, config_set, assets, file, result, pal, spr>>
    /\ UNCHANGED <<wlut, keyed>>

\* one iteration for a file whose open() raises (lines 71-75: no handler in
\* collect_assets or in __main__): the walk ends there and write_wisp_bundle
\* is never called
CollectUnreadable ==
    /\ tool = "bundle" /\ pc = "walk" /\ Cardinality(walked) < MaxFiles
    /\ \E f \in FileSet :
          /\ f.name \notin walked
          /\ f.ext \in DOMAIN ASSET_TYPE
          /\ walked' = walked \cup {f.name}
          /\ result' = [Outcome("collect_assets", "raise") EXCEPT !.name = f.name]
    /\ pc' = "raised"
    /\ UNCHANGED <<tool, config_data, config_set, entries, payloads, offset,
                   assets, file, pal, spr>>
    /\ UNCHANGED <<wlut, keyed>>

\* one iteration for a file that is skipped ("if ext not in ASSET_TYPE: continue")
CollectSkip ==
    /\ tool = "bundle" /\ pc = "walk" /\ Cardinality(walked) < MaxFiles
    /\ \E f \in FileSet :
          /\ f.name \notin walked
          /\ f.ext \notin DOMAIN ASSET_TYPE
          /\ walked' = walked \cup {f.name}
    /\ UNCHANGED <<tool, pc, config_data, config_set, entries, payloads, offset,
                   assets, file, result, pal, spr>>
    /\ UNCHANGED <<wlut, keyed>>

\* collect_assets returns and __main__ calls write_wisp_bundle
WriteBundle ==
    /\ tool = "bundle" /\ pc = "walk"
    /\ file' = BundleBytes(entries, payloads, config_data)
    /\ pc' = "written"
    /\ result' = Outcome("write_wisp_bundle", "true")
    /\ UNCHANGED <<tool, config_data, config_set, walked, entries, payloads,
                   offset, assets, pal, spr>>
    /\ UNCHANGED <<wlut, keyed>>

(***************************************************************************)
(* tools/wisp_rom_builder.py                                               *)
(***************************************************************************)
MAGIC_WISP == 1347635543                \* 0x50534957

\* WispROMBuilder.ASSET_TYPES.get(ext, 0x06)
RomAssetType(ext) ==
    CASE ext = ".wlut" -> 1 [] ext = ".art" -> 2 [] ext = ".sfx" -> 4
      [] ext = ".json" -> 6 [] ext = ".ash" -> 7 [] ext = ".wash" -> 8
      [] ext = ".dat" -> 6 [] OTHER -> 6

\* the asset dict add_asset appends (asset_name[:31] cuts characters)
MakeAsset(asset_name, ext, data) ==
    [name |-> PySlice(asset_name, 0, 31), data |-> data,
     type |-> RomAssetType(ext), flags |-> 0]

\* name_bytes / name_padded and the fields packed by '<32sIIBB6x'
RomEntry(asset, current_offset) ==
    LET name_bytes == PySlice(Utf8Encode(asset.name), 0, 31)
    IN  [name |-> name_bytes \o Rep(32 - Len(name_bytes), 0),
         offset |-> current_offset,
         size |-> Len(asset.data),
         type |-> asset.type,
         flags |-> asset.flags,
         reserved |-> Rep(6, 0)]

\* current_offset += len(asset['data'])
RomNextOffset(current_offset, asset) == current_offset + Len(asset.data)

RECURSIVE RomTable(_, _)
\* the loop of build_rom over self.assets
RomTable(as, current_offset) ==
    IF as = <<>> THEN <<>>
    ELSE <<RomEntry(as[1], current_offset)>>
         \o RomTable(Tail(as), RomNextOffset(current_offset, as[1]))

\* struct.pack('<IIHHI', MAGIC_WISP, 1, len(self.assets), config_size, 0)
RomHeader(entry_count, config_size) ==
    PackLE(MAGIC_WISP, 4) \o PackLE(1, 4) \o PackLE(entry_count, 2)
    \o PackLE(config_size, 2) \o PackLE(0, 4)

\* header + config_bytes + entry_table + asset_data
RomBytes(as, cfg) ==
    LET config_bytes == Utf8Encode(cfg)
    IN  RomHeader(Len(as), Len(config_bytes)) \o config_bytes
        \o PackEntries(RomTable(as, 0)) \o Concat([i \in 1..Len(as) |-> as[i].data])

\* set_config on an existing file
RomSetConfig ==
    /\ tool = "rom" /\ pc = "init"
    /\ \E text \in ConfigTexts : config_data' = text
    /\ config_set' = TRUE
    /\ result' = Outcome("set_config", "true")
    /\ UNCHANGED <<tool, pc, walked, entries, payloads, offset, assets, file, pal, spr>>
    /\ UNCHANGED <<wlut, keyed>>

\* set_config on a missing file: FileNotFoundError, the builder is unchanged
RomSetConfigRaise ==
    /\ tool = "rom" /\ pc = "init"
    /\ result' = Outcome("set_config", "raise")
    /\ UNCHANGED <<tool, pc, config_data, config_set, walked, entries, payloads,
                   offset, assets, file, pal, spr>>
    /\ UNCHANGED <<wlut, keyed>>

\* add_asset(file_path, asset_name) on an existing file
RomAddAsset ==
    /\ tool = "rom" /\ pc = "init" /\ Len(assets) < MaxFiles
    /\ \E f \in FileSet : assets' = Append(assets, MakeAsset(f.name, f.ext, f.data))
    /\ result' = Outcome("add_asset", "true")
    /\ UNCHANGED <<tool, pc, config_data, config_set, walked, entries, payloads,
                   offset, file, pal, spr>>
    /\ UNCHANGED <<wlut, keyed>>

\* add_asset on a file whose open() raises (line 44): the asset is not
\* appended, and main (lines 199-205), which has no handler around the call,
\* ends before build_rom
RomAddAssetRaise ==
    /\ tool = "rom" /\ pc = "init" /\ Len(assets) < MaxFiles
    /\ \E f \in FileSet :
          result' = [Outcome("add_asset", "raise") EXCEPT !.name = f.name]
    /\ pc' = "raised"
    /\ UNCHANGED <<tool, config_data, config_set, walked, entries, payloads,
                   offset, assets, file, pal, spr>>
    /\ UNCHANGED <<wlut, keyed>>

\* build_rom(output_path)
RomBuild ==
    /\ tool = "rom" /\ pc = "init"
    /\ entries' = RomTable(assets, 0)
    /\ payloads' = [i \in 1..Len(assets) |-> assets[i].data]
    /\ offset' = SumLen([i \in 1..Len(assets) |-> assets[i].data])
    /\ file' = RomBytes(assets, config_data)
    /\ pc' = "written"
    /\ result' = Outcome("build_rom", "true")
    /\ UNCHANGED <<tool, config_data, config_set, walked, assets, pal, spr>>
    /\ UNCHANGED <<wlut, keyed>>

(***************************************************************************)
(* tools/wisp_verifier.py                                                  *)
(***************************************************************************)
\* one pass of the "for i in range(entry_count)" loop of verify_wisp_file:
\* the (name, size) pair it prints
VerifyEntry(data, entry_offset) ==
    [name |-> Utf8DecodeIgnore(RStripNul(PySlice(data, entry_offset, entry_offset + 32))),
     size |-> UnpackLE(PySlice(data, entry_offset + 36, entry_offset + 40))]

VerifyReject == [NoResult EXCEPT !.op = "verify", !.ok = "false"]

VerifyTooSmallNoTable(data, entry_table_start, entry_table_size) ==
    Len(data) < entry_table_start

\* data_start = entry_table_start + entry_table_size; len(data) < data_start
VerifyTooSmall(data, entry_table_start, entry_table_size) ==
    Len(data) < entry_table_start + entry_table_size

\* verify_wisp_file on the bytes of an existing file
VerifyWispFile(data) ==
    IF Len(data) < 12 THEN VerifyReject
    ELSE
      LET magic == PySlice(data, 0, 4)
          entry_count == UnpackLE(PySlice(data, 6, 8))
          config_size == UnpackLE(PySlice(data, 8, 12))
          header_size == 12
          entry_table_start == header_size + config_size
          entry_table_size == entry_count * 48
      IN  IF magic # MAGIC THEN VerifyReject
          ELSE IF VerifyTooSmall(data, entry_table_start, entry_table_size)
               THEN VerifyReject
          ELSE [NoResult EXCEPT
                  !.op = "verify", !.ok = "true",
                  !.entry_count = entry_count, !.config_size = config_size,
                  !.listed = [i \in 1..entry_count |->
                                VerifyEntry(data, entry_table_start + (i - 1) * 48)]]

ExtractOutcome(ok, asset_name) ==
    [NoResult EXCEPT !.op = "extract", !.ok = ok, !.name = asset_name]

\* the i-th index "for i in range(entry_count)" visits
ScanIndexReversed(i, entry_count) == entry_count - 1 - i

ScanIndex(i, entry_count) == i

RECURSIVE ExtractScan(_, _, _, _, _)
\* the "for i in range(entry_count)" loop of extract_asset
ExtractScan(data, asset_name, i, entry_count, header_size) ==
    IF i >= entry_count THEN ExtractOutcome("false", asset_name)
    ELSE
      LET entry_offset == header_size + (ScanIndex(i, entry_count) * 48)
          data_start == header_size + (entry_count * 48)
          name == Utf8Decode(RStripNul(PySlice(data, entry_offset, entry_offset + 32)))
          offb == PySlice(data, entry_offset + 32, entry_offset + 36)
          sizeb == PySlice(data, entry_offset + 36, entry_offset + 40)
          asset_start == data_start + UnpackLE(offb)
      IN  IF ~name.ok THEN ExtractOutcome("raise", asset_name)
          ELSE IF name.str = asset_name
          THEN IF Len(offb) # 4 \/ Len(sizeb) # 4
               THEN ExtractOutcome("raise", asset_name)
               ELSE [ExtractOutcome("true", asset_name) EXCEPT
                       !.wrote = TRUE,
                       !.out = PySlice(data, asset_start, asset_start + UnpackLE(sizeb))]
          ELSE ExtractScan(data, asset_name, i + 1, entry_count, header_size)

\* header_size = 16 in extract_asset
ExtractHeaderSize == 16

\* extract_asset(wisp_file, asset_name, output_path)
ExtractAsset(data, asset_name) ==
    IF PySlice(data, 0, 4) # MAGIC THEN ExtractOutcome("false", asset_name)
    ELSE IF Len(PySlice(data, 6, 8)) # 2 THEN ExtractOutcome("raise", asset_name)
    ELSE ExtractScan(data, asset_name, 0, UnpackLE(PySlice(data, 6, 8)),
                     ExtractHeaderSize)

\* one run of wisp_verifier.py performs one reader call on the file
Unread == pc \in {"written", "tampered"} /\ result.op \notin {"verify", "extract"}

Verify ==
    /\ Unread
    /\ result' = VerifyWispFile(file)
    /\ UNCHANGED <<tool, pc, config_data, config_set, walked, entries, payloads,
                   offset, assets, file, pal, spr>>
    /\ UNCHANGED <<wlut, keyed>>

Extract ==
    /\ Unread
    /\ \E asset_name \in RequestNames : result' = ExtractAsset(file, asset_name)
    /\ UNCHANGED <<tool, pc, config_data, config_set, walked, entries, payloads,
                   offset, assets, file, pal, spr>>
    /\ UNCHANGED <<wlut, keyed>>

(***************************************************************************)
(* Files handed to the readers that no writer produced: a written          *)
(* container cut short, or with one header byte replaced                   *)
(***************************************************************************)
CutPoints(data) == {0, 7, 11, 12, Len(data) - 1, Len(data) - 25}

CorruptPositions == {1, 7, 9}            \* magic, entry count, config size

CorruptValues == {0, 2}

Truncate ==
    /\ pc = "written" /\ Unread
    /\ \E k \in CutPoints(file) :
          /\ k >= 0 /\ k < Len(file)
          /\ file' = SubSeq(file, 1, k)
    /\ pc' = "tampered"
    /\ result' = NoResult
    /\ UNCHANGED <<tool, config_data, config_set, walked, entries, payloads,
                   offset, assets, pal, spr>>
    /\ UNCHANGED <<wlut, keyed>>

Corrupt ==
    /\ pc = "written" /\ Unread
    /\ \E p \in CorruptPositions, v \in CorruptValues :
          /\ file[p] # v
          /\ file' = [file EXCEPT ![p] = v]
    /\ pc' = "tampered"
    /\ result' = NoResult
    /\ UNCHANGED <<tool, config_data, config_set, walked, entries, payloads,
                   offset, assets, pal, spr>>
    /\ UNCHANGED <<wlut, keyed>>

(***************************************************************************)
(* The container tools as one state machine                                *)
(***************************************************************************)
\* WLUT_DATA = None
NoneData == [width |-> 0, height |-> 0, colors |-> <<>>, count |-> 0]

\* what compile_png_to_spr is called with and what it produced
NoCall ==
    [called |-> FALSE, img |-> [width |-> 0, height |-> 0, pixels |-> <<>>],
     depth |-> [kind |-> "none", pixels |-> <<>>], palette_id |-> 0,
     ok |-> FALSE, color_data |-> <<>>, depth_runs |-> <<>>, data |-> <<>>]

\* png_to_spr_standalone before any call: WLUT_DATA = None
NoWlut ==
    [loaded |-> FALSE, WLUT_DATA |-> NoneData, nep50 |-> FALSE, op |-> "none",
     ret |-> "none", first |-> NoCall, since |-> 0, last |-> NoCall]

\* what the last call on the builder produced
NoGen ==
    [op |-> "none", ret |-> "none", raised |-> FALSE, max_size |-> 0,
     warned |-> FALSE, rom_data |-> <<>>, assembled |-> <<>>, entries |-> <<>>,
     string_data |-> <<>>, refs |-> <<>>]

\* WispROMBuilderV2(): empty collections and string pool; string_pool is
\* kept as the texts in insertion order, the text at position k having
\* offset k - 1
NoDb ==
    [items |-> <<>>, quests |-> <<>>, maps |-> <<>>, pokemon |-> <<>>,
     string_pool |-> <<>>, loads |-> 0, gens |-> 0, last |-> NoGen]

NoPal ==
    [img |-> [width |-> 0, height |-> 0, color_count |-> 0], mode |-> "none",
     arg |-> "none", analyzed |-> "none", format |-> "none", pattern |-> <<>>,
     nep50 |-> FALSE, used |-> 0, table |-> <<>>]

NoSpr ==
    [width |-> 0, height |-> 0, source |-> "none", depth_pixels |-> <<>>,
     nep50 |-> FALSE, i |-> 0, current_depth |-> 0, run_length |-> 0,
     depth_runs |-> <<>>]

InitContainer ==
    /\ tool \in {"bundle", "rom"}
    /\ pc = "init"
    /\ config_data = <<>>
    /\ config_set = FALSE
    /\ walked = {}
    /\ entries = <<>>
    /\ payloads = <<>>
    /\ offset = 0
    /\ assets = <<>>
    /\ file = <<>>
    /\ result = NoResult
    /\ pal = NoPal
    /\ spr = NoSpr
    /\ wlut = NoWlut
    /\ keyed = NoDb

NextContainer ==
    \/ CollectConfig
    \/ CollectStep
    \/ CollectSkip
    \/ CollectUnreadable
    \/ WriteBundle
    \/ RomSetConfig
    \/ RomSetConfigRaise
    \/ RomAddAsset
    \/ RomAddAssetRaise
    \/ RomBuild
    \/ Verify
    \/ Extract
    \/ Truncate
    \/ Corrupt

SpecContainer == InitContainer /\ [][NextContainer]_vars

(***************************************************************************)
(* tools/wisp_palette_converter.py                                         *)
(* An image is a mode ("RGB" or "RGBA") and a short pattern of pixels      *)
(* <<r, g, b, a>> repeated in row-major order; a is not read in mode RGB.  *)
(* nep50 tells how the installed numpy types "uint8 scalar op Python int": *)
(* FALSE (numpy 1.x) widens to int64, TRUE (numpy 2) stays in uint8.       *)
(***************************************************************************)
MaxPattern == 2      \* length of the repeated pixel pattern

PixelSet == {<<255, 0, 0, 255>>, <<0, 255, 0, 64>>, <<16, 0, 0, 128>>, <<8, 130, 255, 127>>}

Patterns == UNION {[1..n -> PixelSet] : n \in 1..MaxPattern}

\* (width, height) of the source image; the last two match no fixed shape
ImageSizes == {<<64, 64>>, <<32, 32>>, <<16, 1>>, <<64, 1>>, <<256, 1>>,
               <<16, 16>>, <<100, 50>>}

\* len(img.getcolors(...)) for images classified by colour count
ColorCounts == {1, 16, 17, 64, 65, 256, 257}

FormatArgs == {"auto", "lut64", "lut32", "pal16", "pal64", "pal256"}

MAGIC_COLORS == <<4096, 4097, 4098, 4099, 4100>>     \* 0x1000 .. 0x1004

\* rgb888_to_rgb565 on Python ints (and on numpy scalars when ~nep50)
Rgb565Int(r, g, b) ==
    (((r \div 8) % 32) * 2048) + (((g \div 4) % 64) * 32) + ((b \div 8) % 32)

\* rgb888_to_rgb565 on uint8 scalars when every intermediate stays uint8:
\* r << 11 shifts everything out, g << 5 keeps its low three bits
Rgb565Uint8(r, g, b) ==
    ((((g \div 4) % 64) * 32) % 256) + ((b \div 8) % 32)

rgb888_to_rgb565(r, g, b, nep50) ==
    IF nep50 THEN Rgb565Uint8(r, g, b) ELSE Rgb565Int(r, g, b)

\* analyze_image on a readable image
analyze_image(width, height, color_count) ==
    IF width = 64 /\ height = 64 THEN "LUT_64x64"
    ELSE IF width = 32 /\ height = 32 THEN "LUT_32x32"
    ELSE IF width = 16 /\ height = 1 THEN "PALETTE_16"
    ELSE IF width = 64 /\ height = 1 THEN "PALETTE_64"
    ELSE IF width = 256 /\ height = 1 THEN "PALETTE_256"
    ELSE IF width <= 16 /\ height <= 16 THEN "PALETTE_SMALL"
    ELSE IF color_count <= 16 THEN "PALETTE_16"
    ELSE IF color_count <= 64 THEN "PALETTE_64"
    ELSE IF color_count <= 256 THEN "PALETTE_256"
    ELSE "LUT_64x64"

\* format_map[args.format] in main
FormatMap(arg) ==
    CASE arg = "lut64" -> "LUT_64x64" [] arg = "lut32" -> "LUT_32x32"
      [] arg = "pal16" -> "PALETTE_16" [] arg = "pal64" -> "PALETTE_64"
      [] arg = "pal256" -> "PALETTE_256"

PixelAt(pattern, n) == pattern[(n % Len(pattern)) + 1]

\* the body of the pixel loops: one LUT slot from one pixel
LutSlot(px, mode, nep50) ==
    IF mode = "RGBA" /\ px[4] <= 127 THEN 4096
    ELSE rgb888_to_rgb565(px[1], px[2], px[3], nep50)

\* "if y == 63 and x >= 59: continue" (31 and 27 for the 32x32 branch)
LutSkip(y, x, size) == y = size - 1 /\ x >= size - 5

\* the nested "for y ... for x ..." loops over a size x size image, row-major
LutLoop(size, mode, pattern, nep50) ==
    LET cells == [n \in 1..(size * size) |-> n - 1]
        kept == SelectSeq(cells, LAMBDA n : ~LutSkip(n \div size, n % size, size))
    IN  [k \in 1..Len(kept) |-> LutSlot(PixelAt(pattern, kept[k]), mode, nep50)]

\* convert_to_lut_64x64(img): lut_data after lut_data.extend(magic_colors)
convert_to_lut_64x64(mode, pattern, nep50) ==
    LutLoop(64, mode, pattern, nep50) \o MAGIC_COLORS

\* the LUT_32x32 branch of main
Lut32Branch(mode, pattern, nep50) ==
    LutLoop(32, mode, pattern, nep50) \o MAGIC_COLORS

\* what PIL hands to convert_to_palette: img.getpalette() of the quantized
\* image as a flat r, g, b list of k colours ...
PaletteOf(pattern, k) ==
    [j \in 1..(3 * k) |-> PixelAt(pattern, (j - 1) \div 3)[((j - 1) % 3) + 1]]

\* ... and img.getcolors() as (count, color) pairs; color is an int (a P or L
\* image, a one-element sequence here) or an (r, g, b) tuple
ColorsOf(pattern, c, asInt) ==
    [i \in 1..c |->
        [count |-> 1 + (i % 3),
         color |-> IF asInt THEN <<PixelAt(pattern, i - 1)[2]>>
                   ELSE SubSeq(PixelAt(pattern, i - 1), 1, 3)]]

\* sorted(colors, key=lambda x: x[0], reverse=True): stable, so an entry's
\* place is the number of entries that go before it
SortByCountDesc(cs) ==
    LET before(i) == {j \in 1..Len(cs) :
                        \/ cs[j].count > cs[i].count
                        \/ cs[j].count = cs[i].count /\ j < i}
    IN  [r \in 1..Len(cs) |->
           cs[CHOOSE i \in 1..Len(cs) : Cardinality(before(i)) = r - 1]]

\* palette_data built from getcolors (lines 133-140)
PaletteDataOfColors(colors, usable_colors) ==
    LET top == PySlice(SortByCountDesc(colors), 0, usable_colors)
    IN  [j \in 1..(3 * Len(top)) |->
           LET color == top[((j - 1) \div 3) + 1].color
           IN  IF Len(color) = 1 THEN color[1] ELSE color[((j - 1) % 3) + 1]]

\* "for i in range(0, len(palette_data), 3): if i + 2 < len(palette_data)"
Rgb565Palette(palette_data) ==
    [j \in 1..(Len(palette_data) \div 3) |->
        rgb888_to_rgb565(palette_data[3 * j - 2], palette_data[3 * j - 1],
                         palette_data[3 * j], FALSE)]

PadToNoPad(rgb565_palette, usable_colors) == rgb565_palette

\* "while len(rgb565_palette) < usable_colors: rgb565_palette.append(0x0000)"
PadTo(rgb565_palette, usable_colors) ==
    IF Len(rgb565_palette) < usable_colors
    THEN rgb565_palette \o Rep(usable_colors - Len(rgb565_palette), 0)
    ELSE rgb565_palette

\* convert_to_palette(img, max_colors); <<>> stands for the None it returns
\* when getcolors finds too many colours
convert_to_palette(palette, colors, max_colors) ==
    LET usable_colors == max_colors - 5
        palette_data == IF palette = <<>>
                        THEN PaletteDataOfColors(colors, usable_colors)
                        ELSE PySlice(palette, 0, usable_colors * 3)
    IN  IF palette = <<>> /\ colors = <<>> THEN <<>>
        ELSE PadTo(Rgb565Palette(palette_data), usable_colors) \o MAGIC_COLORS

\* capacity of a flat palette format
MaxColors(format) ==
    CASE format = "PALETTE_16" -> 16 [] format = "PALETTE_64" -> 64
      [] format = "PALETTE_256" -> 256

\* images by what analyze_image looks at; the colour count is read only for
\* sizes that match no fixed shape
Images ==
    {[width |-> sz[1], height |-> sz[2], color_count |-> 1] : sz \in ImageSizes}
    \cup {[width |-> 100, height |-> 50, color_count |-> c] : c \in ColorCounts}

\* number of colours in the palette PIL returns, for max_colors
PaletteLens(max_colors) == {1, max_colors - 6, max_colors - 5, max_colors - 4, 256}

\* number of (count, color) pairs getcolors returns (at most usable_colors)
ColorLens(max_colors) == {c \in {1, 3, 11} : c <= max_colors - 5}

\* main, lines 281-298: analyze_image and the --format override
PalAnalyze ==
    /\ tool = "palette" /\ pc = "init"
    /\ \E img \in Images, mode \in {"RGB", "RGBA"}, arg \in FormatArgs :
          LET analyzed == analyze_image(img.width, img.height, img.color_count)
          IN  pal' = [pal EXCEPT !.img = img, !.mode = mode, !.arg = arg,
                                 !.analyzed = analyzed,
                                 !.format = IF arg # "auto" THEN FormatMap(arg)
                                            ELSE analyzed]
    /\ pc' = "analyzed"
    /\ UNCHANGED <<tool, spr>> /\ UNCHANGED containerVars
    /\ UNCHANGED <<wlut, keyed>>

\* main, lines 301-302
PalConvertLut64 ==
    /\ tool = "palette" /\ pc = "analyzed" /\ pal.format = "LUT_64x64"
    /\ \E pattern \in Patterns, nep50 \in BOOLEAN :
          pal' = [pal EXCEPT !.pattern = pattern, !.nep50 = nep50,
                             !.table = convert_to_lut_64x64(pal.mode, pattern, nep50)]
    /\ pc' = "converted"
    /\ UNCHANGED <<tool, spr>> /\ UNCHANGED containerVars
    /\ UNCHANGED <<wlut, keyed>>

\* main, lines 303-346
PalConvertLut32 ==
    /\ tool = "palette" /\ pc = "analyzed" /\ pal.format = "LUT_32x32"
    /\ \E pattern \in Patterns, nep50 \in BOOLEAN :
          pal' = [pal EXCEPT !.pattern = pattern, !.nep50 = nep50,
                             !.table = Lut32Branch(pal.mode, pattern, nep50)]
    /\ pc' = "converted"
    /\ UNCHANGED <<tool, spr>> /\ UNCHANGED containerVars
    /\ UNCHANGED <<wlut, keyed>>

\* main, lines 347-362, when getpalette returns a palette
PalConvertPalette ==
    /\ tool = "palette" /\ pc = "analyzed"
    /\ pal.format \in {"PALETTE_16", "PALETTE_64", "PALETTE_256"}
    /\ \E pattern \in Patterns, k \in PaletteLens(MaxColors(pal.format)) :
          pal' = [pal EXCEPT
                    !.pattern = pattern, !.used = k,
                    !.table = convert_to_palette(PaletteOf(pattern, k), <<>>,
                                                 MaxColors(pal.format))]
    /\ pc' = "converted"
    /\ UNCHANGED <<tool, spr>> /\ UNCHANGED containerVars
    /\ UNCHANGED <<wlut, keyed>>

\* the same when getpalette returns nothing and getcolors is consulted
PalConvertColors ==
    /\ tool = "palette" /\ pc = "analyzed"
    /\ pal.format \in {"PALETTE_16", "PALETTE_64", "PALETTE_256"}
    /\ \E pattern \in Patterns, c \in ColorLens(MaxColors(pal.format)), asInt \in BOOLEAN :
          pal' = [pal EXCEPT
                    !.pattern = pattern, !.used = c,
                    !.table = convert_to_palette(<<>>, ColorsOf(pattern, c, asInt),
                                                 MaxColors(pal.format))]
    /\ pc' = "converted"
    /\ UNCHANGED <<tool, spr>> /\ UNCHANGED containerVars
    /\ UNCHANGED <<wlut, keyed>>

\* getcolors returns None (too many colours): convert_to_palette returns None
\* and main ends with "Error: Conversion failed"
PalConvertFail ==
    /\ tool = "palette" /\ pc = "analyzed"
    /\ pal.format \in {"PALETTE_16", "PALETTE_64", "PALETTE_256"}
    /\ pal' = [pal EXCEPT !.table = convert_to_palette(<<>>, <<>>, MaxColors(pal.format))]
    /\ pc' = "failed"
    /\ UNCHANGED <<tool, spr>> /\ UNCHANGED containerVars
    /\ UNCHANGED <<wlut, keyed>>

\* main, lines 356-358: a format no branch handles
PalUnsupported ==
    /\ tool = "palette" /\ pc = "analyzed"
    /\ pal.format \notin {"LUT_64x64", "LUT_32x32", "PALETTE_16", "PALETTE_64",
                          "PALETTE_256"}
    /\ pc' = "failed"
    /\ UNCHANGED <<tool, pal, spr>> /\ UNCHANGED containerVars
    /\ UNCHANGED <<wlut, keyed>>

InitPalette ==
    /\ tool = "palette"
    /\ pc = "init"
    /\ config_data = <<>>
    /\ config_set = FALSE
    /\ walked = {}
    /\ entries = <<>>
    /\ payloads = <<>>
    /\ offset = 0
    /\ assets = <<>>
    /\ file = <<>>
    /\ result = NoResult
    /\ pal = NoPal
    /\ spr = NoSpr
    /\ wlut = NoWlut
    /\ keyed = NoDb


NextPalette ==
    \/ PalAnalyze
    \/ PalConvertLut64
    \/ PalConvertLut32
    \/ PalConvertPalette
    \/ PalConvertColors
    \/ PalConvertFail
    \/ PalUnsupported

SpecPalette == InitPalette /\ [][NextPalette]_vars

(***************************************************************************)
(* Sprite compilers: depth map and its run-length encoding                 *)
(* (wisp_builder.compile_png_to_sprite, png_to_spr_standalone)             *)
(***************************************************************************)
MaxDepthLen == 6

\* grey levels of the .depth image
DepthPixels == {85, 128, 149}

\* every value of an 8-bit sample, for the one-pixel depth image
GreyLevels == 0..255

\* (width, height) of sprites compiled with a matching depth image
DepthShapes == {<<n, 1>> : n \in 1..MaxDepthLen}

\* (width, height) of sprites compiled with the flat depth map
FlatShapes == {<<1, 1>>, <<3, 2>>, <<255, 257>>, <<256, 256>>}

\* "(depth_pixels[y, x] * 12) // 255" on a numpy uint8 scalar: the product
\* is an int64 under value-based promotion and stays uint8 under NEP 50
ScaleDepth(p, nep50) ==
    IF nep50 THEN ((p * 12) % 256) \div 255 ELSE (p * 12) \div 255

\* len(depth_data)
DepthLen(s) == s.width * s.height

\* depth_data[i]: 6 everywhere for the flat map, else the scaled grey level
\* of pixel (i // width, i % width)
DepthAt(s, i) ==
    IF s.source = "file" THEN ScaleDepth(s.depth_pixels[i + 1], s.nep50) ELSE 6

\* state of the encoder before its loop: current_depth = depth_data[0],
\* run_length = 1, and range(1, len(depth_data)) about to start
RleStart(s) ==
    [s EXCEPT !.i = 1, !.current_depth = DepthAt(s, 0), !.run_length = 1,
              !.depth_runs = <<>>]

\* no .depth file, or one whose size differs: depth_data = [6] * (width * height)
SprFlatDepth ==
    /\ tool \in {"wisp_builder", "png_to_spr"} /\ pc = "init"
    /\ \E shape \in FlatShapes, source \in {"none", "mismatch"} :
          spr' = RleStart([spr EXCEPT !.width = shape[1], !.height = shape[2],
                                      !.source = source])
    /\ pc' = "rle"
    /\ UNCHANGED <<tool, pal>> /\ UNCHANGED containerVars
    /\ UNCHANGED <<wlut, keyed>>

\* a .depth file of the sprite's size: one scaled value per pixel
SprFileDepth ==
    /\ tool \in {"wisp_builder", "png_to_spr"} /\ pc = "init"
    /\ \E shape \in DepthShapes, nep50 \in BOOLEAN :
       \E depth_pixels \in [1..(shape[1] * shape[2]) ->
                                IF shape = <<1, 1>> THEN GreyLevels ELSE DepthPixels] :
          spr' = RleStart([spr EXCEPT !.width = shape[1], !.height = shape[2],
                                      !.source = "file", !.nep50 = nep50,
                                      !.depth_pixels = depth_pixels])
    /\ pc' = "rle"
    /\ UNCHANGED <<tool, pal>> /\ UNCHANGED containerVars
    /\ UNCHANGED <<wlut, keyed>>

\* one iteration of "for i in range(1, len(depth_data))"
RleStep ==
    /\ pc = "rle" /\ spr.i < DepthLen(spr)
    /\ spr' = IF RleContinues(DepthAt(spr, spr.i), spr.current_depth, spr.run_length)
              THEN [spr EXCEPT !.i = @ + 1, !.run_length = @ + 1]
              ELSE [spr EXCEPT !.i = @ + 1,
                               !.depth_runs = Append(@, <<spr.current_depth,
                                                          spr.run_length>>),
                               !.current_depth = DepthAt(spr, spr.i),
                               !.run_length = 1]
    /\ UNCHANGED <<tool, pc, pal>> /\ UNCHANGED containerVars
    /\ UNCHANGED <<wlut, keyed>>

\* the loop is exhausted: "depth_runs.append((current_depth, run_length))"
RleFinish ==
    /\ pc = "rle" /\ spr.i >= DepthLen(spr)
    /\ spr' = [spr EXCEPT !.depth_runs = Append(@, <<spr.current_depth,
                                                     spr.run_length>>)]
    /\ pc' = "encoded"
    /\ UNCHANGED <<tool, pal>> /\ UNCHANGED containerVars
    /\ UNCHANGED <<wlut, keyed>>

InitSprite ==
    /\ tool \in {"wisp_builder", "png_to_spr"}
    /\ pc = "init"
    /\ config_data = <<>>
    /\ config_set = FALSE
    /\ walked = {}
    /\ entries = <<>>
    /\ payloads = <<>>
    /\ offset = 0
    /\ assets = <<>>
    /\ file = <<>>
    /\ result = NoResult
    /\ pal = NoPal
    /\ spr = NoSpr
    /\ wlut = NoWlut
    /\ keyed = NoDb

NextSprite ==
    \/ SprFlatDepth
    \/ SprFileDepth
    \/ RleStep
    \/ RleFinish

SpecSprite == InitSprite /\ [][NextSprite]_vars

(***************************************************************************)
(* png_to_spr_standalone: load_wlut, colour matching, compile_png_to_spr   *)
(***************************************************************************)
\* the format word generate_binary writes for a format class
FormatCode(format_type) ==
    CASE format_type = "LUT_64x64" -> 1280660534
      [] format_type = "LUT_32x32" -> 1280660531
      [] format_type = "PALETTE_16" -> 1346456625
      [] format_type = "PALETTE_64" -> 1346456630
      [] format_type = "PALETTE_256" -> 1346456632
      [] OTHER -> 1346456576

\* struct.pack('<HH', width, height) of generate_binary
FormatShape(format_type) ==
    CASE format_type = "LUT_64x64" -> <<64, 64>>
      [] format_type = "LUT_32x32" -> <<32, 32>>
      [] OTHER -> <<0, 0>>

\* generate_binary writing the colours big-endian
generate_binary_big_endian(data, format_type) ==
    <<87, 76, 85, 84>> \o PackLE(FormatCode(format_type), 4)
    \o PackLE(FormatShape(format_type)[1], 2) \o PackLE(FormatShape(format_type)[2], 2)
    \o PackLE(Len(data), 2) \o PackLE(0, 2)
    \o [j \in 1..(2 * Len(data)) |-> PackLE(data[(j + 1) \div 2], 2)[2 - ((j - 1) % 2)]]

\* generate_binary(data, format_type) of wisp_palette_converter
generate_binary(data, format_type) ==
    <<87, 76, 85, 84>> \o PackLE(FormatCode(format_type), 4)
    \o PackLE(FormatShape(format_type)[1], 2) \o PackLE(FormatShape(format_type)[2], 2)
    \o PackLE(Len(data), 2) \o PackLE(0, 2)
    \o [j \in 1..(2 * Len(data)) |-> PackLE(data[(j + 1) \div 2], 2)[((j - 1) % 2) + 1]]

\* colour tables of the palette files on disk
WlutTables ==
    {<<63488, 31, 65535, 4096>>,      \* red, blue, white, transparent
     <<4096>>,                        \* only the transparent code
     <<4101, 0>>,                     \* 0x1005 and black
     <<0, 4096, 4096>>,
     <<31, 63488, 31>>,
     <<>>}

\* files handed to load_wlut: well-formed ones, one cut inside the colour
\* data, one cut inside the header, one with another magic
WlutFiles ==
    {generate_binary(t, "PALETTE_16") : t \in WlutTables}
    \cup {SubSeq(generate_binary(<<63488, 31, 65535, 4096>>, "PALETTE_16"), 1, 21),
          SubSeq(generate_binary(<<4096>>, "PALETTE_16"), 1, 9),
          <<87, 76, 85, 88>> \o Tail(Tail(Tail(Tail(generate_binary(<<0>>, "PALETTE_16")))))}

load_wlut_assigning_first(data) ==
    LET color_count == UnpackLE(PySlice(data, 12, 14))
    IN  IF PySlice(data, 0, 4) # <<87, 76, 85, 84>>
        THEN [ret |-> "None", assigned |-> FALSE, WLUT_DATA |-> NoneData]
        ELSE IF Len(data) < 16 \/ Len(data) < 16 + 2 * color_count
        THEN [ret |-> "False", assigned |-> TRUE, WLUT_DATA |-> NoneData]
        ELSE [ret |-> "True", assigned |-> TRUE,
              WLUT_DATA |->
                [width |-> UnpackLE(PySlice(data, 8, 10)),
                 height |-> UnpackLE(PySlice(data, 10, 12)),
                 colors |-> [i \in 1..color_count |->
                               UnpackLE(PySlice(data, 14 + 2 * i, 16 + 2 * i))],
                 count |-> color_count]]

\* load_wlut on an opened file: what it returns and the WLUT_DATA it assigns
\* (struct.error on a short read is caught by "except Exception")
load_wlut(data) ==
    LET color_count == UnpackLE(PySlice(data, 12, 14))
    IN  IF PySlice(data, 0, 4) # <<87, 76, 85, 84>>
        THEN [ret |-> "None", assigned |-> FALSE, WLUT_DATA |-> NoneData]
        ELSE IF Len(data) < 16 \/ Len(data) < 16 + 2 * color_count
        THEN [ret |-> "False", assigned |-> FALSE, WLUT_DATA |-> NoneData]
        ELSE [ret |-> "True", assigned |-> TRUE,
              WLUT_DATA |->
                [width |-> UnpackLE(PySlice(data, 8, 10)),
                 height |-> UnpackLE(PySlice(data, 10, 12)),
                 colors |-> [i \in 1..color_count |->
                               UnpackLE(PySlice(data, 14 + 2 * i, 16 + 2 * i))],
                 count |-> color_count]]

\* find_closest_transparent_index(): indexes count from 0
find_closest_transparent_index(w) ==
    IF ~w.loaded THEN 0
    ELSE LET hits == {i \in 1..Len(w.WLUT_DATA.colors) : w.WLUT_DATA.colors[i] = 4096}
         IN  IF hits = {} THEN 0
             ELSE (CHOOSE i \in hits : \A j \in hits : i <= j) - 1

\* float('inf')
Inf == -1

\* "distance < best_distance"
Closer(distance, best_distance) == best_distance = Inf \/ distance < best_distance

\* "if color >= 0x1000 and color <= 0x1111: continue"
IsMagic(color) == color >= 4096 /\ color <= 4369

\* a - b, a * b and a + b when a is a numpy uint8 scalar under NEP 50 (the
\* result wraps in uint8), and on integers otherwise
Sub8(a, b, nep50) == IF nep50 THEN (a - b) % 256 ELSE a - b

Mul8(a, b, nep50) == IF nep50 THEN (a * b) % 256 ELSE a * b

Add8(a, b, nep50) == IF nep50 THEN (a + b) % 256 ELSE a + b

\* lines 87-96: distance of one palette colour to the target channels
Distance(target_r, target_g, target_b, color, nep50) ==
    LET r == (color \div 2048) % 32
        g == (color \div 32) % 64
        b == color % 32
        dr == Sub8(target_r, r, nep50)
        dg == Sub8(target_g, g, nep50)
        db == Sub8(target_b, b, nep50)
    IN  Add8(Add8(Mul8(dr, dr, nep50), Mul8(dg, dg, nep50), nep50),
             Mul8(db, db, nep50), nep50)

RECURSIVE ClosestLoop(_, _, _, _, _, _, _, _)
\* "for i, color in enumerate(WLUT_DATA['colors'])" of find_closest_color_index
ClosestLoop(colors, i, best_index, best_distance, target_r, target_g, target_b, nep50) ==
    IF i >= Len(colors) THEN best_index
    ELSE IF IsMagic(colors[i + 1])
    THEN ClosestLoop(colors, i + 1, best_index, best_distance,
                     target_r, target_g, target_b, nep50)
    ELSE LET distance == Distance(target_r, target_g, target_b, colors[i + 1], nep50)
         IN  IF Closer(distance, best_distance)
             THEN ClosestLoop(colors, i + 1, i, distance,
                              target_r, target_g, target_b, nep50)
             ELSE ClosestLoop(colors, i + 1, best_index, best_distance,
                              target_r, target_g, target_b, nep50)

\* find_closest_color_index(target_rgb565); a uint8 target (NEP 50) has no
\* bits above the eighth, an integer target has all sixteen
find_closest_color_index(w, target_rgb565, nep50) ==
    IF ~w.loaded THEN 0
    ELSE ClosestLoop(w.WLUT_DATA.colors, 0, 0, Inf,
                     (target_rgb565 \div 2048) % 32, (target_rgb565 \div 32) % 64,
                     target_rgb565 % 32, nep50)

\* lines 174-177: rgb565 of a visible pixel, from uint8 scalars
PixelRgb565(r, g, b, nep50) ==
    IF nep50 THEN Rgb565Uint8(r, g, b) ELSE Rgb565Int(r, g, b)

\* lines 166-181: the palette index stored for one pixel
PaletteIndex(w, px, nep50) ==
    IF px[4] <= 127 THEN find_closest_transparent_index(w)
    ELSE find_closest_color_index(w, PixelRgb565(px[1], px[2], px[3], nep50), nep50)

\* lines 183-201: depth_data of a call
DepthData(img, depth, nep50) ==
    [i \in 1..(img.width * img.height) |->
        IF depth.kind = "file" THEN ScaleDepth(depth.pixels[i], nep50) ELSE 6]

\* lines 232-241: the sprite record
SpriteBytes(width, height, color_data, depth_runs, palette_id) ==
    PackLE(width, 2) \o PackLE(height, 2) \o PackLE(Len(color_data), 4)
    \o PackLE(Len(depth_runs) * 3, 4) \o <<palette_id, 0, 1, 1>>
    \o PackLE(width, 2) \o PackLE(height, 2)
    \o color_data
    \o [j \in 1..(3 * Len(depth_runs)) |->
          (<<depth_runs[((j - 1) \div 3) + 1][1]>>
           \o PackLE(depth_runs[((j - 1) \div 3) + 1][2], 2))[((j - 1) % 3) + 1]]

\* compile_png_to_spr(png_path, output_path, palette_id) with WLUT_DATA = w:
\* bytes(color_data) raises for an index above 255, and the call returns False
compile_png_to_spr(w, img, depth, palette_id, nep50) ==
    LET color_data == [i \in 1..(img.width * img.height) |->
                          PaletteIndex(w, img.pixels[i], nep50)]
        depth_data == DepthData(img, depth, nep50)
        depth_runs == RleLoop(depth_data, 1, depth_data[1], 1, <<>>)
        ok == \A i \in 1..Len(color_data) : color_data[i] <= 255
    IN  [called |-> TRUE, img |-> img, depth |-> depth, palette_id |-> palette_id,
         ok |-> ok, color_data |-> color_data, depth_runs |-> depth_runs,
         data |-> IF ok THEN SpriteBytes(img.width, img.height, color_data,
                                         depth_runs, palette_id)
                  ELSE <<>>]

\* RGBA pixels of the sprite images
SprPixels ==
    {<<255, 0, 0, 255>>, <<0, 255, 0, 64>>, <<16, 0, 40, 255>>, <<0, 0, 0, 128>>}

\* the 2x2 image red, green (alpha 64), blue, white
ScenarioPixels ==
    <<(<<255, 0, 0, 255>>), (<<0, 255, 0, 64>>), (<<0, 0, 255, 255>>),
      (<<255, 255, 255, 255>>)>>

SprImages ==
    {[width |-> 1, height |-> 1, pixels |-> <<p>>] : p \in SprPixels}
    \cup {[width |-> 2, height |-> 2, pixels |-> ScenarioPixels]}

\* the .depth image next to an image: none, or one of the image's size
SprDepths(img) ==
    {[kind |-> "none", pixels |-> <<>>]}
    \cup {[kind |-> "file", pixels |-> [i \in 1..(img.width * img.height) |->
                                          IF i % 2 = 1 THEN p ELSE q]] :
            p \in {128}, q \in {85}}

PaletteIds == {0, 7}

\* load_wlut(wlut_path): WLUT_DATA is assigned only after the whole file was
\* read; a file that cannot be opened is the "except" branch
LoadWlut ==
    /\ tool = "png_to_spr" /\ pc = "session"
    /\ \E data \in WlutFiles, readable \in BOOLEAN :
          LET r == IF readable THEN load_wlut(data)
                   ELSE [ret |-> "False", assigned |-> FALSE, WLUT_DATA |-> NoneData]
              changes == r.ret = "True" /\ (~wlut.loaded \/ r.WLUT_DATA # wlut.WLUT_DATA)
          IN  wlut' = [wlut EXCEPT
                         !.op = "load_wlut", !.ret = r.ret,
                         !.loaded = @ \/ r.assigned,
                         !.WLUT_DATA = IF r.assigned THEN r.WLUT_DATA ELSE @,
                         !.first = IF changes THEN NoCall ELSE @,
                         !.since = IF changes \/ ~wlut.first.called THEN 0
                                   ELSE Min(@ + 1, 2)]
    /\ UNCHANGED <<tool, pc, pal, spr, keyed>> /\ UNCHANGED containerVars

\* compile_png_to_spr(png_path, output_path, palette_id)
CompileSpr ==
    /\ tool = "png_to_spr" /\ pc = "session"
    /\ \E img \in SprImages, palette_id \in PaletteIds :
       \E depth \in SprDepths(img) :
          LET c == compile_png_to_spr(wlut, img, depth, palette_id, wlut.nep50)
          IN  wlut' = [wlut EXCEPT
                         !.op = "compile_png_to_spr",
                         !.ret = IF c.ok THEN "True" ELSE "False",
                         !.first = IF @.called THEN @ ELSE c,
                         !.since = IF wlut.first.called THEN Min(@ + 1, 2) ELSE 0,
                         !.last = c]
    /\ UNCHANGED <<tool, pc, pal, spr, keyed>> /\ UNCHANGED containerVars

InitSession ==
    /\ tool = "png_to_spr"
    /\ pc = "session"
    /\ config_data = <<>>
    /\ config_set = FALSE
    /\ walked = {}
    /\ entries = <<>>
    /\ payloads = <<>>
    /\ offset = 0
    /\ assets = <<>>
    /\ file = <<>>
    /\ result = NoResult
    /\ pal = NoPal
    /\ spr = NoSpr
    /\ \E nep50 \in BOOLEAN : wlut = [NoWlut EXCEPT !.nep50 = nep50]
    /\ keyed = NoDb

NextSession ==
    \/ LoadWlut
    \/ CompileSpr

SpecSession == InitSession /\ [][NextSession]_vars

(***************************************************************************)
(* The converter's binary file, and png_to_spr_standalone reading it back  *)
(***************************************************************************)

\* struct.pack('<H', color) of every colour of the table
Packable(data) == \A k \in 1..Len(data) : FitsH(data[k])

\* main, lines 394-399, without --header-only: generate_binary(data,
\* format_type) is written to ../exports/<base>.wlut; struct.pack raises on
\* a colour outside 0..65535
PalWriteBinary ==
    /\ tool = "palette" /\ pc = "converted"
    /\ IF Packable(pal.table)
       THEN /\ file' = generate_binary(pal.table, pal.format)
            /\ pc' = "exported"
       ELSE /\ file' = file
            /\ pc' = "raised"
    /\ UNCHANGED <<tool, pal, spr, wlut, keyed>>
    /\ UNCHANGED <<config_data, config_set, walked, entries, payloads, offset,
                   assets, result>>

\* load_wlut(wlut_path) of png_to_spr_standalone on the exported file
PalLoadWlut ==
    /\ tool = "palette" /\ pc = "exported"
    /\ \E r \in {load_wlut(file)} :
          wlut' = [wlut EXCEPT
                     !.op = "load_wlut", !.ret = r.ret,
                     !.loaded = @ \/ r.assigned,
                     !.WLUT_DATA = IF r.assigned THEN r.WLUT_DATA ELSE @]
    /\ pc' = "loaded"
    /\ UNCHANGED <<tool, pal, spr, keyed>>
    /\ UNCHANGED <<config_data, config_set, walked, entries, payloads, offset,
                   assets, file, result>>

\* sizes analyze_image maps to the five format classes
ExportSizes == {<<64, 64>>, <<32, 32>>, <<16, 1>>, <<64, 1>>, <<256, 1>>}

\* a run of main on an image of a fixed shape without --format, from the
\* point where the format class has been chosen (lines 281-298)
InitExport ==
    /\ tool = "palette"
    /\ pc = "analyzed"
    /\ config_data = <<>>
    /\ config_set = FALSE
    /\ walked = {}
    /\ entries = <<>>
    /\ payloads = <<>>
    /\ offset = 0
    /\ assets = <<>>
    /\ file = <<>>
    /\ result = NoResult
    /\ \E sz \in ExportSizes, mode \in {"RGB", "RGBA"} :
          pal = [NoPal EXCEPT
                   !.img = [width |-> sz[1], height |-> sz[2], color_count |-> 1],
                   !.mode = mode, !.arg = "auto",
                   !.analyzed = analyze_image(sz[1], sz[2], 1),
                   !.format = analyze_image(sz[1], sz[2], 1)]
    /\ spr = NoSpr
    /\ wlut = NoWlut
    /\ keyed = NoDb

NextExport ==
    \/ PalConvertLut64
    \/ PalConvertLut32
    \/ PalConvertPalette
    \/ PalConvertColors
    \/ PalConvertFail
    \/ PalWriteBinary
    \/ PalLoadWlut

SpecExport == InitExport /\ [][NextExport]_vars

(***************************************************************************)
(* wisp_rom_builder_v2: WispROMBuilderV2                                   *)
(***************************************************************************)
MaxLoads == 2        \* load_yaml calls on one builder

MaxGens == 2         \* generate_rom calls on one builder

StrA == <<65>>

StrB == <<66>>

StrE == <<233>>      \* one character, two bytes in UTF-8

\* records of the YAML documents, with the defaults of .get() filled in
ItemRecs ==
    {[id |-> i, name |-> n, description |-> <<>>, type |-> 1, rarity |-> 1,
      value |-> v, properties |-> 0] :
        i \in {1, 2}, n \in {StrA, StrB}, v \in {0, 70000}}

QuestRecs ==
    {[id |-> 1, title |-> t, required_level |-> 1, description |-> StrA] :
        t \in {StrA, StrE}}

MapRecs ==
    {[id |-> i, name |-> StrB, width |-> 20, height |-> 20] : i \in {1, 131073}}

PokemonRecs ==
    {[id |-> 1, name |-> StrA, type1 |-> 0, type2 |-> 0, base_hp |-> 50,
      base_attack |-> 50, base_defense |-> 50, base_speed |-> 50]}

\* documents yaml.safe_load returns: one record under one of the four keys
YamlDocs ==
    {[items |-> <<r>>, quests |-> <<>>, maps |-> <<>>, pokemon |-> <<>>] : r \in ItemRecs}
    \cup {[items |-> <<>>, quests |-> <<r>>, maps |-> <<>>, pokemon |-> <<>>] : r \in QuestRecs}
    \cup {[items |-> <<>>, quests |-> <<>>, maps |-> <<r>>, pokemon |-> <<>>] : r \in MapRecs}
    \cup {[items |-> <<>>, quests |-> <<>>, maps |-> <<>>, pokemon |-> <<r>>] : r \in PokemonRecs}

\* max_size arguments: the default and one below every database
MaxSizes == {6144, 40}

RECURSIVE BitOr(_, _)
\* a | b on non-negative integers
BitOr(a, b) ==
    IF a = 0 THEN b
    ELSE IF b = 0 THEN a
    ELSE (IF a % 2 = 1 \/ b % 2 = 1 THEN 1 ELSE 0) + 2 * BitOr(a \div 2, b \div 2)

\* _make_key(namespace, category, id)
make_key(namespace, category, id) ==
    BitOr(BitOr(namespace * 16777216, category * 65536), id)

\* position of text in the pool, 0 when absent
PoolIndex(string_pool, text) ==
    IF \E k \in 1..Len(string_pool) : string_pool[k] = text
    THEN CHOOSE k \in 1..Len(string_pool) : string_pool[k] = text
    ELSE 0

\* add_string(text): the pool afterwards and the offset returned
add_string(string_pool, text) ==
    IF PoolIndex(string_pool, text) > 0
    THEN [string_pool |-> string_pool, offset |-> PoolIndex(string_pool, text) - 1]
    ELSE [string_pool |-> Append(string_pool, text), offset |-> Len(string_pool)]

\* lines 82-84: the string pool section, in offset order
StringData(string_pool) ==
    Concat([k \in 1..Len(string_pool) |-> Utf8Encode(string_pool[k]) \o <<0>>])

\* the records generate_rom walks, in its order: items, quests, maps, pokemon
Work(b) ==
    [k \in 1..Len(b.items) |-> [kind |-> "item", rec |-> b.items[k]]]
    \o [k \in 1..Len(b.quests) |-> [kind |-> "quest", rec |-> b.quests[k]]]
    \o [k \in 1..Len(b.maps) |-> [kind |-> "map", rec |-> b.maps[k]]]
    \o [k \in 1..Len(b.pokemon) |-> [kind |-> "pokemon", rec |-> b.pokemon[k]]]

\* the _make_key call of each loop
EntryKey(kind, rec) ==
    CASE kind = "item" -> make_key(1, 1, rec.id)
      [] kind = "quest" -> make_key(1, 2, rec.id)
      [] kind = "map" -> make_key(3, 4, rec.id)
      [] kind = "pokemon" -> make_key(1, 7, rec.id)

\* the strings a record passes to add_string, in call order
EntryTexts(kind, rec) ==
    CASE kind = "item" -> <<rec.name, rec.description>>
      [] kind = "quest" -> <<rec.title, rec.description>>
      [] kind = "map" -> <<rec.name>>
      [] kind = "pokemon" -> <<rec.name>>

\* struct.pack of the payload succeeds: every field fits its width
PayloadFits(kind, rec, offs) ==
    /\ \A k \in 1..Len(offs) : FitsH(offs[k])
    /\ CASE kind = "item" ->
              FitsB(rec.type) /\ FitsB(rec.rarity) /\ FitsH(rec.value)
              /\ FitsH(rec.properties)
         [] kind = "quest" -> FitsH(rec.required_level)
         [] kind = "map" -> FitsH(rec.width) /\ FitsH(rec.height)
         [] kind = "pokemon" ->
              FitsB(rec.type1) /\ FitsB(rec.type2) /\ FitsH(rec.base_hp)
              /\ FitsH(rec.base_attack) /\ FitsH(rec.base_defense)
              /\ FitsH(rec.base_speed)

\* entry_data: '<HBBHHH' (_pack_item), '<HHH', '<HHH', '<HBBHHHH'
EntryPayload(kind, rec, offs) ==
    CASE kind = "item" ->
           PackLE(offs[1], 2) \o <<rec.type, rec.rarity>> \o PackLE(rec.value, 2)
           \o PackLE(rec.properties, 2) \o PackLE(offs[2], 2)
      [] kind = "quest" ->
           PackLE(offs[1], 2) \o PackLE(rec.required_level, 2) \o PackLE(offs[2], 2)
      [] kind = "map" ->
           PackLE(offs[1], 2) \o PackLE(rec.width, 2) \o PackLE(rec.height, 2)
      [] kind = "pokemon" ->
           PackLE(offs[1], 2) \o <<rec.type1, rec.type2>> \o PackLE(rec.base_hp, 2)
           \o PackLE(rec.base_attack, 2) \o PackLE(rec.base_defense, 2)
           \o PackLE(rec.base_speed, 2)

RECURSIVE AddStrings(_, _, _)
\* the add_string calls of one record: the pool afterwards and the offsets
AddStrings(string_pool, texts, offs) ==
    IF texts = <<>> THEN [string_pool |-> string_pool, offs |-> offs]
    ELSE LET a == add_string(string_pool, texts[1])
         IN  AddStrings(a.string_pool, Tail(texts), Append(offs, a.offset))

RECURSIVE EntryLoop(_, _, _)
\* the four loops of lines 92-144; st.body is what they append to rom_data.
\* A struct.error leaves the loops with the pool as it is by then
EntryLoop(work, i, st) ==
    IF i > Len(work) THEN st
    ELSE LET kind == work[i].kind
             rec == work[i].rec
             key == EntryKey(kind, rec)
             a == AddStrings(st.string_pool, EntryTexts(kind, rec), <<>>)
             fits == PayloadFits(kind, rec, a.offs) /\ FitsL(key)
             entry_data == EntryPayload(kind, rec, a.offs)
             entry_header == PackLE(key, 4) \o <<6, 1>> \o PackLE(Len(entry_data), 2)
         IN  IF ~fits
             THEN [st EXCEPT !.string_pool = a.string_pool, !.raised = TRUE]
             ELSE EntryLoop(work, i + 1,
                    [st EXCEPT
                       !.string_pool = a.string_pool,
                       !.body = @ \o entry_header \o entry_data,
                       !.entries = Append(@, key),
                       !.refs = @ \o [k \in 1..Len(a.offs) |->
                                        [text |-> EntryTexts(kind, rec)[k],
                                         offset |-> a.offs[k]]]])

\* n & 0xFFFFFFFF, its two 16-bit halves put together
Mask32(n) == ((n \div 65536) % 65536) * 65536 + (n % 65536)

\* sum(rom_data[32:])
SumBytes(bs) ==
    LET F[k \in 0..Len(bs)] == IF k = 0 THEN 0 ELSE F[k - 1] + bs[k]
    IN  F[Len(bs)]

\* the items of the format '<HLLLL6L', by width in bytes: H, four L, six L
HeaderFormat == <<2, 4, 4, 4, 4, 4, 4, 4, 4, 4, 4>>

\* the values passed with it (lines 153-159): twelve of them
HeaderValues(entry_count, data_size, checksum, free_space) ==
    <<entry_count, data_size, checksum, 0, free_space, 0, 0, 0, 0, 0, 0, 0>>

\* generate_rom(max_size) on builder b: the pool afterwards and what the call
\* produced or had assembled when it raised; "rom_data[6:32] = header_data"
\* replaces 26 bytes by the packed header, whatever its length
generate_rom(b, max_size) ==
    LET string_data == StringData(b.string_pool)
        Finish(st) ==
            LET before == <<87, 82, 80, 86>> \o PackLE(2, 2) \o Rep(26, 0)
                          \o string_data \o st.body
                entry_count == Len(st.entries)
                data_size == Len(before) - 32
                checksum == Mask32(SumBytes(SubSeq(before, 33, Len(before))))
                header_data == StructPack(HeaderFormat,
                                          HeaderValues(entry_count, data_size, checksum,
                                                       data_size - Len(string_data)))
                rom_data == SubSeq(before, 1, 6) \o header_data.bytes
                            \o SubSeq(before, 33, Len(before))
                raised == st.raised \/ header_data.raised
            IN  [string_pool |-> st.string_pool, raised |-> raised,
                 rom_data |-> IF raised THEN <<>> ELSE rom_data,
                 assembled |-> before,
                 entries |-> st.entries, string_data |-> string_data,
                 refs |-> st.refs,
                 warned |-> ~raised /\ Len(rom_data) > max_size]
    IN  Finish(EntryLoop(Work(b), 1,
                         [string_pool |-> b.string_pool, body |-> <<>>,
                          entries |-> <<>>, refs |-> <<>>, raised |-> FALSE]))

\* load_yaml(filename): a document that cannot be read or parsed leaves the
\* builder as it is and returns False
KLoadYaml ==
    /\ tool = "rom_v2" /\ pc = "built" /\ keyed.loads < MaxLoads
    /\ \E doc \in YamlDocs, readable \in BOOLEAN :
          keyed' = IF readable
                   THEN [keyed EXCEPT
                           !.items = @ \o doc.items, !.quests = @ \o doc.quests,
                           !.maps = @ \o doc.maps, !.pokemon = @ \o doc.pokemon,
                           !.loads = @ + 1,
                           !.last = [NoGen EXCEPT !.op = "load_yaml", !.ret = "True"]]
                   ELSE [keyed EXCEPT
                           !.loads = @ + 1,
                           !.last = [NoGen EXCEPT !.op = "load_yaml", !.ret = "False"]]
    /\ UNCHANGED <<tool, pc, pal, spr, wlut>> /\ UNCHANGED containerVars

\* generate_rom(max_size) called on the builder
KGenerateRom ==
    /\ tool = "rom_v2" /\ pc = "built" /\ keyed.gens < MaxGens
    /\ \E max_size \in MaxSizes :
       \E g \in {generate_rom(keyed, max_size)} :
              keyed' = [keyed EXCEPT
                          !.string_pool = g.string_pool,
                          !.gens = @ + 1,
                          !.last = [op |-> "generate_rom",
                                    ret |-> IF g.raised THEN "raised" ELSE "bytes",
                                    raised |-> g.raised, max_size |-> max_size,
                                    warned |-> g.warned, rom_data |-> g.rom_data,
                                    assembled |-> g.assembled,
                                    entries |-> g.entries,
                                    string_data |-> g.string_data, refs |-> g.refs]]
    /\ UNCHANGED <<tool, pc, pal, spr, wlut>> /\ UNCHANGED containerVars

\* write_rom_file(filename): generate_rom() with the default max_size, then
\* the file is written; any exception gives False
KWriteRomFile ==
    /\ tool = "rom_v2" /\ pc = "built" /\ keyed.gens < MaxGens
    /\ \E writable \in BOOLEAN :
       \E g \in {generate_rom(keyed, 6144)} :
              /\ keyed' = [keyed EXCEPT
                             !.string_pool = g.string_pool,
                             !.gens = @ + 1,
                             !.last = [op |-> "write_rom_file",
                                       ret |-> IF g.raised \/ ~writable THEN "False"
                                               ELSE "True",
                                       raised |-> g.raised, max_size |-> 6144,
                                       warned |-> g.warned, rom_data |-> g.rom_data,
                                       assembled |-> g.assembled,
                                       entries |-> g.entries,
                                       string_data |-> g.string_data,
                                       refs |-> g.refs]]
              /\ file' = IF g.raised \/ ~writable THEN file ELSE g.rom_data
    /\ UNCHANGED <<tool, pc, pal, spr, wlut>>
    /\ UNCHANGED <<config_data, config_set, walked, entries, payloads, offset,
                   assets, result>>

InitKeyed ==
    /\ tool = "rom_v2"
    /\ pc = "built"
    /\ config_data = <<>>
    /\ config_set = FALSE
    /\ walked = {}
    /\ entries = <<>>
    /\ payloads = <<>>
    /\ offset = 0
    /\ assets = <<>>
    /\ file = <<>>
    /\ result = NoResult
    /\ pal = NoPal
    /\ spr = NoSpr
    /\ wlut = NoWlut
    /\ keyed = NoDb

NextKeyed ==
    \/ KLoadYaml
    \/ KGenerateRom
    \/ KWriteRomFile

SpecKeyed == InitKeyed /\ [][NextKeyed]_vars

(***************************************************************************)
(* Properties of the container tools                                       *)
(***************************************************************************)
RECURSIVE SumSizes(_)
SumSizes(es) == IF es = <<>> THEN 0 ELSE es[1].size + SumSizes(Tail(es))

SetMin(S) == CHOOSE x \in S : \A y \in S : x <= y

SetMax(S) == CHOOSE x \in S : \A y \in S : x >= y

\* entries of the written table whose stored name is the requested one
StoredMatches ==
    {k \in 1..Len(entries) : RStripNul(entries[k].name) = Utf8Encode(result.name)}

\* C1: every entry of a bundle written by write_wisp_bundle from a non-empty
\* config and entries with pairwise distinct names of at most 31 bytes is
\* extracted by its name, byte for byte.
C1_RoundTrip ==
    ( /\ tool = "bundle" /\ pc = "written" /\ result.op = "extract"
      /\ config_data # <<>>
      /\ \A n \in walked : Len(Utf8Encode(n)) <= 31
      /\ \A j, k \in 1..Len(entries) : j # k => entries[j].name # entries[k].name )
    => \A k \in StoredMatches : result.ok = "true" /\ result.out = payloads[k]

\* C2: in every entry table built by collect_assets or build_rom, entry k has
\* the size of its payload and starts at the sum of the sizes of the entries
\* before it, so the ranges tile [0, sum of sizes) in insertion order.
C2_Partition ==
    /\ Len(entries) = Len(payloads)
    /\ \A k \in 1..Len(entries) :
          /\ entries[k].size = Len(payloads[k])
          /\ entries[k].offset = SumLen(SubSeq(payloads, 1, k - 1))
    /\ tool = "bundle" => offset = SumLen(payloads)

C2_Witness ==
    /\ tool = "bundle" /\ Len(entries) = 2
    /\ entries[1].size = 20 /\ entries[2].offset = 20 /\ entries[2].size = 10

\* C3: a file written by write_wisp_bundle is 12 + len(config) + 48 * entryCount
\* + sum of entry sizes bytes long; assets of 10 and 20 bytes sit at offsets
\* 0 and 10 in a file of 12 + len(config) + 96 + 30 bytes.
C3_FileSize ==
    (tool = "bundle" /\ pc = "written") =>
        /\ Len(file) = 12 + Len(config_data) + 48 * Len(entries) + SumSizes(entries)
        /\ ( Len(entries) = 2 /\ entries[1].size = 10 /\ entries[2].size = 20 ) =>
              /\ entries[1].offset = 0 /\ entries[2].offset = 10
              /\ Len(file) = 12 + Len(config_data) + 96 + 30

C3_Witness ==
    /\ tool = "bundle" /\ pc = "written" /\ Len(entries) = 2
    /\ entries[1].size = 10 /\ entries[2].size = 20
    /\ Len(config_data) = 4 /\ Len(file) = 142

\* C4: verify_wisp_file reads back, from a container written by build_rom, the
\* entry count and config size that were written and lists every added asset
\* with its name and size.
C4_HeaderAgreement ==
    (tool = "rom" /\ pc = "written" /\ result.op = "verify") =>
        /\ result.ok = "true"
        /\ result.entry_count = Len(assets)
        /\ result.config_size = Len(Utf8Encode(config_data))
        /\ Len(result.listed) = Len(assets)
        /\ \A k \in 1..Len(assets) :
              /\ result.listed[k].name = assets[k].name
              /\ result.listed[k].size = Len(assets[k].data)

\* C5: no container writer writes a file without a configuration: collect_assets
\* raises when no config file supplies a blob, and build_rom fails on a builder
\* on which set_config never succeeded.
C5_MissingConfig ==
    /\ (tool = "bundle" /\ pc # "init" /\ config_data = <<>>) => pc = "raised"
    /\ (tool = "rom" /\ ~config_set) => pc \notin {"written", "tampered"}

\* C6: verify_wisp_file returns False, without reading an entry record, for
\* every input shorter than 12 bytes, not starting with 'WISP', or shorter than
\* the 12 + configSize + 48 * entryCount its header declares.
C6_VerifyRejects ==
    ( /\ result.op = "verify"
      /\ \/ Len(file) < 12
         \/ <<file[1], file[2], file[3], file[4]>> # <<87, 73, 83, 80>>
         \/ Len(file) < 12 + (file[9] + 256 * file[10] + 65536 * file[11]
                              + 16777216 * file[12])
                           + 48 * (file[7] + 256 * file[8]) )
    => (result.ok = "false" /\ result.listed = <<>>)

C6_Witness ==
    /\ result.op = "verify" /\ result.ok = "false"
    /\ Len(file) >= 12
    /\ SubSeq(file, 1, 4) = MAGIC
    /\ Len(file) < 12 + file[9] + 48 * file[7]

\* the entry table as extract_asset reads it: the count at bytes 6..7 and
\* 48-byte records from byte 16
ReaderCount == file[7] + 256 * file[8]

ReaderName(i) == Utf8Decode(RStripNul(PySlice(file, 16 + 48 * i, 48 + 48 * i)))

ReaderMatches ==
    {i \in 0..(ReaderCount - 1) : ReaderName(i).ok /\ ReaderName(i).str = result.name}

ReaderField(i, at) ==
    LET p == 16 + 48 * i + at
    IN  file[p + 1] + 256 * file[p + 2] + 65536 * file[p + 3] + 16777216 * file[p + 4]

C8_FirstMatch ==
    (tool = "bundle" /\ pc = "written" /\ result.op = "extract") =>
        IF StoredMatches = {}
        THEN result.ok = "false" /\ ~result.wrote
        ELSE result.ok = "true" /\ result.out = payloads[SetMin(StoredMatches)]

(***************************************************************************)
(* Properties of the palette converter                                     *)
(***************************************************************************)

\* number of entries the format is sized for
Capacity(format) ==
    CASE format = "PALETTE_16" -> 16 [] format = "PALETTE_64" -> 64
      [] format = "PALETTE_256" -> 256 [] format = "LUT_64x64" -> 4096
      [] format = "LUT_32x32" -> 1024

\* C9: every table the converter produces has exactly as many entries as its
\* format's capacity (16, 64, 256, 4096, 1024), its last five entries are
\* 0x1000..0x1004 in order, and in the flat formats every slot between the
\* image's colours and the sentinels holds 0x0000.
C9_TableShape ==
    pc = "converted" =>
        /\ Len(pal.table) = Capacity(pal.format)
        /\ SubSeq(pal.table, Len(pal.table) - 4, Len(pal.table)) =
              <<4096, 4097, 4098, 4099, 4100>>
        /\ pal.format \in {"PALETTE_16", "PALETTE_64", "PALETTE_256"} =>
              \A i \in (pal.used + 1)..(Capacity(pal.format) - 5) : pal.table[i] = 0

\* a flat table with padding and a lookup table were both produced
C9_Witness ==
    /\ pc = "converted"
    /\ pal.format = "PALETTE_64"
    /\ pal.used = 1
    /\ Len(pal.table) = 64
    /\ pal.table[2] = 0 /\ pal.table[59] = 0 /\ pal.table[60] = 4096

(***************************************************************************)
(* Properties of the depth encoder                                         *)
(***************************************************************************)

\* number of pixels covered by the runs before run k
RunStart(runs, k) ==
    LET F[j \in 0..(k - 1)] == IF j = 0 THEN 0 ELSE F[j - 1] + runs[j][2]
    IN  F[k - 1]

\* the expansion of the runs, at pixel i (from 0)
ExpandAt(runs, i) ==
    runs[CHOOSE k \in 1..Len(runs) :
            RunStart(runs, k) <= i /\ i < RunStart(runs, k + 1)][1]

\* the six-pixel depth map 6, 6, 6, 4, 4, 7
IsScenarioDepth ==
    /\ DepthLen(spr) = 6
    /\ [i \in 1..6 |-> DepthAt(spr, i - 1)] = <<6, 6, 6, 4, 4, 7>>

\* C10: once a non-empty depth sequence is encoded, expanding the
\* (depthValue, runLength) pairs gives back the sequence pixel for pixel,
\* every runLength is in 1..65535, the run lengths sum to width*height, and
\* the sequence 6, 6, 6, 4, 4, 7 is encoded as (6,3), (4,2), (7,1).
C10_RleRoundTrip ==
    pc = "encoded" =>
        /\ \A k \in 1..Len(spr.depth_runs) :
              spr.depth_runs[k][2] >= 1 /\ spr.depth_runs[k][2] <= 65535
        /\ RunStart(spr.depth_runs, Len(spr.depth_runs) + 1) = spr.width * spr.height
        /\ \A i \in 0..(DepthLen(spr) - 1) :
              ExpandAt(spr.depth_runs, i) = DepthAt(spr, i)
        /\ IsScenarioDepth => spr.depth_runs = <<<<6, 3>>, <<4, 2>>, <<7, 1>>>>

\* the scenario's depth map was encoded
C10_Witness ==
    /\ pc = "encoded"
    /\ IsScenarioDepth
    /\ spr.depth_runs = <<<<6, 3>>, <<4, 2>>, <<7, 1>>>>

\* C11 as stated: in the encoded run sequence of any sprite, uniform depth
\* maps of 65536 pixels and more included, no two adjacent runs carry the
\* same depthValue.
C11_RunsMaximal ==
    pc = "encoded" =>
        \A k \in 1..(Len(spr.depth_runs) - 1) :
            spr.depth_runs[k][1] # spr.depth_runs[k + 1][1]

\* C11: in the encoded run sequence of any sprite, two adjacent runs carry
\* the same depthValue only when the earlier of the two has the largest run
\* length the encoder allows, 65535.
C11_MaximalUpToCap ==
    pc = "encoded" =>
        \A k \in 1..(Len(spr.depth_runs) - 1) :
            spr.depth_runs[k][1] = spr.depth_runs[k + 1][1]
                => spr.depth_runs[k][2] = 65535

\* a uniform 256x256 depth map was encoded as two runs of the same value
C11_Witness ==
    /\ pc = "encoded"
    /\ spr.width = 256 /\ spr.height = 256
    /\ spr.depth_runs = <<<<6, 65535>>, <<6, 1>>>>

(***************************************************************************)
(* Properties of png_to_spr_standalone                                     *)
(* wlut.first is the first compilation made since the loaded palette last  *)
(* changed, wlut.since counts the calls made after it (2 for two or more). *)
(***************************************************************************)

\* the last call compiled what the first compilation compiled
SameInputAgain ==
    /\ wlut.op = "compile_png_to_spr"
    /\ wlut.first.called /\ wlut.since >= 1
    /\ wlut.last.img = wlut.first.img
    /\ wlut.last.depth = wlut.first.depth
    /\ wlut.last.palette_id = wlut.first.palette_id

\* C12: compiling the same colour image, depth image and palette id again,
\* with no successful load of a different palette in between (other
\* compilations and failed loads may have happened), gives the same result and
\* byte-identical output.
C12_Deterministic ==
    SameInputAgain =>
        /\ wlut.last.ok = wlut.first.ok
        /\ wlut.last.data = wlut.first.data

\* the scenario image was compiled, other calls followed, and compiling it
\* again under the loaded palette gave the same non-empty record
C12_Witness ==
    /\ SameInputAgain
    /\ wlut.since = 2
    /\ wlut.loaded /\ wlut.WLUT_DATA.count = 4
    /\ wlut.last.img.width = 2
    /\ wlut.last.ok /\ Len(wlut.last.data) = 20 + 4 + 3
    /\ wlut.last.data = wlut.first.data

\* squared distance between a pixel's truncated channels and a palette code
TrueDistance(px, color) ==
    LET dr == ((px[1] \div 8) % 32) - ((color \div 2048) % 32)
        dg == ((px[2] \div 4) % 64) - ((color \div 32) % 64)
        dbl == ((px[3] \div 8) % 32) - (color % 32)
    IN  dr * dr + dg * dg + dbl * dbl

\* indexes (from 0) of the palette entries that are not sentinel codes
RegularIndexes(colors) ==
    {i \in 0..(Len(colors) - 1) : colors[i + 1] < 4096 \/ colors[i + 1] > 4100}

\* the lowest index among the regular entries nearest to the pixel
NearestRegular(px, colors) ==
    CHOOSE i \in RegularIndexes(colors) :
        \A j \in RegularIndexes(colors) :
            \/ TrueDistance(px, colors[i + 1]) < TrueDistance(px, colors[j + 1])
            \/ TrueDistance(px, colors[i + 1]) = TrueDistance(px, colors[j + 1]) /\ i <= j

\* C13 as stated: right after a compilation, every visible pixel (alpha >=
\* 128) is stored as the lowest index minimizing the squared channel distance
\* over the palette entries whose code is not in 0x1000..0x1004, and as 0 when
\* no palette is loaded.
C13_NearestColour ==
    wlut.op = "compile_png_to_spr" =>
        \A i \in 1..Len(wlut.last.color_data) :
            wlut.last.img.pixels[i][4] >= 128 =>
                IF ~wlut.loaded THEN wlut.last.color_data[i] = 0
                ELSE RegularIndexes(wlut.WLUT_DATA.colors) # {} =>
                        wlut.last.color_data[i] =
                            NearestRegular(wlut.last.img.pixels[i], wlut.WLUT_DATA.colors)

\* the index (from 0) the transparent pixels are to be stored as
TransparentIndex ==
    IF wlut.loaded /\ \E i \in 1..Len(wlut.WLUT_DATA.colors) : wlut.WLUT_DATA.colors[i] = 4096
    THEN (CHOOSE i \in 1..Len(wlut.WLUT_DATA.colors) :
            /\ wlut.WLUT_DATA.colors[i] = 4096
            /\ \A j \in 1..(i - 1) : wlut.WLUT_DATA.colors[j] # 4096) - 1
    ELSE 0

\* C14 as stated: right after a compilation, every pixel with alpha <= 127 is
\* stored as the lowest index whose code is 0x1000, or as 0 when there is no
\* such entry or no palette; and with the palette red, blue, white,
\* transparent the image red, green (alpha 64), blue, white compiles to
\* 0, 3, 1, 2.
C14_Transparent ==
    wlut.op = "compile_png_to_spr" =>
        /\ \A i \in 1..Len(wlut.last.color_data) :
              wlut.last.img.pixels[i][4] <= 127 =>
                  wlut.last.color_data[i] = TransparentIndex
        /\ (/\ wlut.loaded
            /\ wlut.WLUT_DATA.colors = <<63488, 31, 65535, 4096>>
            /\ wlut.last.img.pixels = ScenarioPixels)
              => wlut.last.color_data = <<0, 3, 1, 2>>

\* C15 as stated: right after a compilation under a loaded palette, the index
\* stored for a visible pixel never refers to an entry whose code is one of
\* 0x1000..0x1004, palettes made only of sentinel codes included.
C15_NeverSentinel ==
    (wlut.op = "compile_png_to_spr" /\ wlut.loaded) =>
        \A i \in 1..Len(wlut.last.color_data) :
            (/\ wlut.last.img.pixels[i][4] >= 128
             /\ wlut.last.color_data[i] < Len(wlut.WLUT_DATA.colors))
              => LET code == wlut.WLUT_DATA.colors[wlut.last.color_data[i] + 1]
                 IN  code < 4096 \/ code > 4100

(***************************************************************************)
(* Properties of the palette converter's format selection                  *)
(***************************************************************************)

\* the class an image is to get: by exact shape, else by colour count
ClassByShapeOrCount(img) ==
    IF img.width = 64 /\ img.height = 64 THEN "LUT_64x64"
    ELSE IF img.width = 32 /\ img.height = 32 THEN "LUT_32x32"
    ELSE IF img.width = 16 /\ img.height = 1 THEN "PALETTE_16"
    ELSE IF img.width = 64 /\ img.height = 1 THEN "PALETTE_64"
    ELSE IF img.width = 256 /\ img.height = 1 THEN "PALETTE_256"
    ELSE IF img.color_count <= 16 THEN "PALETTE_16"
    ELSE IF img.color_count <= 64 THEN "PALETTE_64"
    ELSE IF img.color_count <= 256 THEN "PALETTE_256"
    ELSE "LUT_64x64"

\* C16 as stated: analyze_image returns the LUT class for 64x64 and 32x32,
\* the flat class for 16x1, 64x1 and 256x1, and for every other size the
\* smallest flat class that holds the image's distinct colours (LUT_64x64
\* above 256); the class is always one the converter turns into a table.
C16_CapacitySelection ==
    pc # "init" =>
        /\ pal.analyzed = ClassByShapeOrCount(pal.img)
        /\ pal.analyzed \in {"LUT_64x64", "LUT_32x32", "PALETTE_16", "PALETTE_64",
                             "PALETTE_256"}

(***************************************************************************)
(* Properties of the keyed database builder                                *)
(***************************************************************************)

\* the call that ended last was a build of the database
BuildEnded == keyed.last.op \in {"generate_rom", "write_rom_file"}

\* C17 as stated: every generate_rom call returns the database bytes and
\* every build completes without an exception, whatever was loaded and
\* whatever max_size is; the bytes returned end with everything that was
\* assembled after the header, and an oversize database is only warned of.
C17_BuildCompletes ==
    BuildEnded =>
        /\ ~keyed.last.raised
        /\ keyed.last.op = "generate_rom" => keyed.last.ret = "bytes"
        /\ Len(keyed.last.rom_data) >= Len(keyed.last.assembled)
        /\ SubSeq(keyed.last.rom_data,
                  Len(keyed.last.rom_data) - Len(keyed.last.assembled) + 33,
                  Len(keyed.last.rom_data))
             = SubSeq(keyed.last.assembled, 33, Len(keyed.last.assembled))
        /\ keyed.last.warned = (Len(keyed.last.rom_data) > keyed.last.max_size)

\* C18 as stated: in the entry sequence a build assembles, whatever was
\* loaded and in whatever sequence of load calls, no two entries carry the
\* same 32-bit key.
C18_KeysUnique ==
    BuildEnded =>
        \A i, j \in 1..Len(keyed.last.entries) :
            keyed.last.entries[i] = keyed.last.entries[j] => i = j

\* C19 as stated: generate_rom produces a database whose header is exactly
\* 32 bytes, the string pool starting at byte 32; entryCount (bytes 6..7)
\* is the number of entries written, dataSize (bytes 8..11) the number of
\* bytes after the header, checksum (bytes 12..15) their sum modulo 2^32.
C19_HeaderAccurate ==
    keyed.last.op = "generate_rom" =>
        LET rom_data == keyed.last.rom_data
            string_data == keyed.last.string_data
            data == SubSeq(rom_data, 33, Len(rom_data))
        IN  /\ keyed.last.ret = "bytes"
            /\ Len(rom_data) >= 32
            /\ SubSeq(rom_data, 33, 32 + Len(string_data)) = string_data
            /\ UnpackLE(SubSeq(rom_data, 7, 8)) = Len(keyed.last.entries)
            /\ UnpackLE(SubSeq(rom_data, 9, 12)) = Len(data)
            /\ UnpackLE(SubSeq(rom_data, 13, 16)) = Mask32(SumBytes(data))

\* text, null-terminated, stands at byte offset off of the pool section
StandsAt(string_data, off, text) ==
    LET copy == Utf8Encode(text) \o <<0>>
    IN  /\ off + Len(copy) <= Len(string_data)
        /\ SubSeq(string_data, off + 1, off + Len(copy)) = copy
        /\ off = 0 \/ string_data[off] = 0

\* the byte offsets at which a null-terminated string of the section starts
StringStarts(string_data) ==
    {off \in 0..(Len(string_data) - 1) : off = 0 \/ string_data[off] = 0}

\* C20 as stated: in the data a build assembles, the first build of a
\* freshly loaded builder included, every string offset packed into an
\* entry payload is the byte offset, in the string pool section serialized
\* before the entries of that same data, of a null-terminated copy of that
\* string, and each distinct string stands in the section once.
C20_StringRefsResolve ==
    BuildEnded =>
        /\ \A k \in 1..Len(keyed.last.refs) :
              StandsAt(keyed.last.string_data, keyed.last.refs[k].offset,
                       keyed.last.refs[k].text)
        /\ \A a, b \in StringStarts(keyed.last.string_data) :
              (\E k \in 1..Len(keyed.last.refs) :
                  /\ StandsAt(keyed.last.string_data, a, keyed.last.refs[k].text)
                  /\ StandsAt(keyed.last.string_data, b, keyed.last.refs[k].text))
                => a = b

(***************************************************************************)
(* Properties of a batch with a failing asset                              *)
(***************************************************************************)

\* one asset of the batch could not be read
AssetFailed == result.ok = "raise" /\ result.op \in {"collect_assets", "add_asset"}
               /\ result.name # <<>>

\* C21 as stated: a batch is never aborted by one asset that cannot be read;
\* the run goes on to write the container holding the assets that succeeded.
C21_PartialBatch ==
    AssetFailed => pc # "raised"

(***************************************************************************)
(* Properties of the depth scaling                                         *)
(***************************************************************************)

\* C22 as stated: with a depth image of the sprite's size, the depth stored
\* for a pixel whose 8-bit sample is v is floor(v * 12 / 255), a value in
\* 0..12, 0 for v = 0 and 12 for v = 255.
C22_DepthScaling ==
    (pc = "encoded" /\ spr.source = "file") =>
        \A i \in 0..(DepthLen(spr) - 1) :
            LET v == spr.depth_pixels[i + 1]
                stored == ExpandAt(spr.depth_runs, i)
            IN  /\ stored = (v * 12) \div 255
                /\ stored >= 0 /\ stored <= 12
                /\ v = 255 => stored = 12

(***************************************************************************)
(* Properties of the stored names                                          *)
(***************************************************************************)

\* the logical names the entry table was built from
LogicalNames ==
    IF tool = "bundle" THEN walked ELSE {assets[k].name : k \in 1..Len(assets)}

\* C23 as stated: every entry of a written container has a 32-byte name
\* field of at most 31 name bytes and NUL padding; the name bytes are a
\* prefix of the UTF-8 encoding of a logical name and decode as UTF-8, so
\* no multi-byte sequence is cut.
C23_NameTruncation ==
    (pc = "written" /\ tool \in {"bundle", "rom"}) =>
        \A k \in 1..Len(entries) :
            LET stored == RStripNul(entries[k].name)
            IN  /\ Len(entries[k].name) = 32
                /\ Len(stored) <= 31
                /\ \E n \in LogicalNames :
                      stored = PySlice(Utf8Encode(n), 0, Len(stored))
                /\ Utf8Decode(stored).ok

(***************************************************************************)
(* Properties of the sprite payload of a bundle                            *)
(***************************************************************************)

\* positions of the .png asset in the entry table
PngEntries ==
    {k \in 1..Len(entries) : RStripNul(entries[k].name) = NamePng}

\* C24 as stated: the payload of a .png asset in a written bundle is the
\* sprite record of its image, not the PNG's bytes: a fixed header, then
\* width*height index bytes, then 3 bytes for each depth run (one run for
\* the flat depth map of a small image).
C24_SpriteRecord ==
    (tool = "bundle" /\ pc = "written") =>
        \A k \in PngEntries :
            LET n == PngImage.width * PngImage.height
            IN  /\ payloads[k] # PngData
                /\ Len(payloads[k]) > n + 3
                /\ SubSeq(payloads[k], Len(payloads[k]) - n - 2, Len(payloads[k]) - 3)
                     = [i \in 1..n |-> QuantIndex(PngImage.pixels[i])]
                /\ SubSeq(payloads[k], Len(payloads[k]) - 2, Len(payloads[k]))
                     = <<6>> \o PackLE(n, 2)
                /\ SubSeq(payloads[k], 1, 4)
                     = PackLE(PngImage.width, 2) \o PackLE(PngImage.height, 2)

(***************************************************************************)
(* Properties of the keys of the keyed database                            *)
(***************************************************************************)

\* the fixed (namespace, category) of each record type
TypeOf(kind) ==
    CASE kind = "item" -> <<1, 1>>
      [] kind = "quest" -> <<1, 2>>
      [] kind = "map" -> <<3, 4>>
      [] kind = "pokemon" -> <<1, 7>>

\* C25 as stated: the key a build writes for a record has the record type's
\* namespace in bits 31..24, its category in bits 23..16 and the record's id
\* in bits 15..0, so the key decodes back to (namespace, category, id).
C25_KeyLayout ==
    BuildEnded =>
        \A k \in 1..Len(keyed.last.entries) :
            LET key == keyed.last.entries[k]
                w == Work(keyed)[k]
            IN  /\ key \div 16777216 = TypeOf(w.kind)[1]
                /\ (key \div 65536) % 256 = TypeOf(w.kind)[2]
                /\ key % 65536 = w.rec.id

(***************************************************************************)
(* Properties of the extracted range                                       *)
(***************************************************************************)

\* C26 as stated: extract_asset reports success only when the bytes it
\* writes are exactly the declared size bytes of the matched entry, taken
\* from [payloadStart + offset, payloadStart + offset + size), and that range
\* lies inside the file; never with a shorter payload.
C26_ExtractRange ==
    (result.op = "extract" /\ result.ok = "true") =>
        LET i == SetMin(ReaderMatches)
            start == 16 + 48 * ReaderCount + ReaderField(i, 32)
            size == ReaderField(i, 36)
        IN  /\ result.wrote
            /\ Len(result.out) = size
            /\ start + size <= Len(file)
            /\ result.out = SubSeq(file, start + 1, start + size)

(***************************************************************************)
(* Properties of repeated builds                                           *)
(***************************************************************************)

\* the entry data a build assembled: what follows the string pool section
EntryData(g) ==
    SubSeq(g.assembled, 33 + Len(g.string_data), Len(g.assembled))

\* C27 as stated: a build that directly follows another build of the same
\* builder, with no load call in between, assembles the same string pool
\* section and the same entry data as the one before it.
C27_Repeatable ==
    [][(BuildEnded /\ BuildEnded' /\ keyed'.gens = keyed.gens + 1) =>
          /\ keyed'.last.string_data = keyed.last.string_data
          /\ EntryData(keyed'.last) = EntryData(keyed.last)]_vars

(***************************************************************************)
(* Properties of the loaded palette state                                  *)
(***************************************************************************)

\* C28: a load_wlut call that returns None or False leaves WLUT_DATA as it
\* was, a call that returns True stores a whole colour table, and a
\* compilation changes nothing of it: the palette a compilation uses is the
\* one of the most recent successful load, or none.
C28_FailedLoadKeeps ==
    [][/\ (wlut'.op = "load_wlut" /\ wlut'.ret # "True") =>
              /\ wlut'.WLUT_DATA = wlut.WLUT_DATA
              /\ wlut'.loaded = wlut.loaded
       /\ (wlut'.op = "load_wlut" /\ wlut'.ret = "True" /\ wlut' # wlut) =>
              /\ wlut'.loaded
              /\ wlut'.WLUT_DATA.colors \in WlutTables
              /\ wlut'.WLUT_DATA.count = Len(wlut'.WLUT_DATA.colors)
       /\ (wlut'.op = "compile_png_to_spr") =>
              /\ wlut'.WLUT_DATA = wlut.WLUT_DATA
              /\ wlut'.loaded = wlut.loaded]_vars

\* a load has just failed while the palette of an earlier, successful load
\* is still the loaded one
C28_Witness ==
    /\ wlut.op = "load_wlut"
    /\ wlut.ret = "False"
    /\ wlut.loaded
    /\ wlut.WLUT_DATA.colors = <<63488, 31, 65535, 4096>>

(***************************************************************************)
(* Properties of the palette file read back                                *)
(***************************************************************************)

\* C29: for every table the converter produced and every format class,
\* load_wlut of the file generate_binary wrote succeeds and yields the same
\* colour sequence, the same colour count and the width and height of the
\* class (64x64, 32x32 or 0x0), and the file is 16 + 2 * colorCount bytes
C29_RoundTrip ==
    (tool = "palette" /\ pc \in {"exported", "loaded", "raised"}) =>
        /\ pc # "raised"
        /\ Len(file) = 16 + 2 * Len(pal.table)
        /\ pc = "loaded" =>
              /\ wlut.ret = "True"
              /\ wlut.loaded
              /\ wlut.WLUT_DATA.colors = pal.table
              /\ wlut.WLUT_DATA.count = Len(pal.table)
              /\ <<wlut.WLUT_DATA.width, wlut.WLUT_DATA.height>>
                    = (CASE pal.format = "LUT_64x64" -> <<64, 64>>
                         [] pal.format = "LUT_32x32" -> <<32, 32>>
                         [] OTHER -> <<0, 0>>)

C29_Witness ==
    /\ tool = "palette" /\ pc = "loaded"
    /\ pal.format = "LUT_64x64"
    /\ wlut.WLUT_DATA.count = 4096
    /\ wlut.WLUT_DATA.colors[1] = 63488
    /\ Len(file) = 8208

(***************************************************************************)
(* Properties of the sentinel codes in a converted LUT                     *)
(* The cells skipped by the pixel loops are the last five, so slot k of    *)
(* the table comes from pixel k - 1 in row-major order.                    *)
(***************************************************************************)

SentinelCodes == 4096..4100

\* C30: in a converted LUT a slot before the five reserved ones holds a
\* sentinel code (0x1000..0x1004) only when its source pixel has
\* alpha <= 127, and then it holds 0x1000; the rgb565 value stored for an
\* opaque pixel is never a sentinel code
C30_NoSentinelForOpaque ==
    (tool = "palette" /\ pc = "converted"
        /\ pal.format \in {"LUT_64x64", "LUT_32x32"}) =>
        \A k \in 1..(Len(pal.table) - 5) :
            pal.table[k] \in SentinelCodes =>
                /\ pal.mode = "RGBA"
                /\ PixelAt(pal.pattern, k - 1)[4] <= 127
                /\ pal.table[k] = 4096

====
